---- MODULE Spec2Model ----
(***************************************************************************)
(* Model of the indexing and vector-retrieval pipeline of elephant-mcp:    *)
(* the vector store repository (saveFunction, deleteFunction, the readers, *)
(* index state) and the indexing orchestrator (indexVerifiedScripts).      *)
(*                                                                         *)
(* Modelling conventions                                                   *)
(*  - a path is a sequence of segments, a segment a sequence of the parts  *)
(*    between dots: nested/b.cjs is << <<"nested">>, <<"b","cjs">> >>;     *)
(*  - a text is a run-length token stream: a sequence of runs              *)
(*    [ws, n, half]: n tokens, ws marking whitespace-only tokens, half = 0 *)
(*    for tokens that are whole characters, 1 (2) for a run of tokens of   *)
(*    two-token characters that starts at the first (second) token of a    *)
(*    character; the decoder turns a token cut off from its character into *)
(*    one replacement character;                                           *)
(*  - an embedding vector is [dim, numeric, text]: its length, whether     *)
(*    every component is a number, and the text it embeds;                 *)
(*  - a database transaction commits atomically; a statement outside a     *)
(*    transaction is one atomic step.                                      *)
(*  - statements of the per-file block of the orchestrator may throw (the  *)
(*    Faults); the index state read and write are taken to succeed;        *)
(*  - function ids are SQLite rowids: the largest id in the table plus 1.  *)
(***************************************************************************)
EXTENDS Integers, Sequences, FiniteSets, TLC

\* ---------------------------------------------------------------- bounds
MaxRuns == 2
MaxCommit == 2
MaxStoreOps == 4
MaxOpens == 3
MaxDbWrites == 2
MaxCalls == 2
MaxTextRuns == 3
MaxRunTokens == 3
MaxBound == 4
MaxTopK == 2
MaxBatch == 2
MaxFiles == 2
MaxToolStoreOps == 2
MaxSearchStoreOps == 3
MaxToolCalls == 2

\* ------------------------------------------------------ program constants
EMBEDDING_DIMENSION == 1536
MAX_TOKENS_PER_CHUNK == 8192
JS_EXTENSIONS == {".js", ".mjs", ".cjs", ".ts", ".tsx"}

NoFault == -1

\* the dimension of the embedding model of the running build
EMBEDDING_DIM == 1536

\* ------------------------------------------------------------ arithmetic
CeilDiv(a, b) == (a + b - 1) \div b

SetMax(S) == CHOOSE m \in S : \A x \in S : x <= m

\* ------------------------------------------------------------------ text
\* n tokens, each a whole number of characters
Tok(ws, n) == [ws |-> ws, n |-> n, half |-> 0]
\* n tokens of characters that take two tokens each
Wide(n) == [ws |-> FALSE, n |-> n, half |-> 1]

RECURSIVE TokenCount(_)
TokenCount(text) ==
  IF text = <<>> THEN 0 ELSE Head(text).n + TokenCount(Tail(text))

\* tokens.slice(lo, hi): the tokens at positions lo..hi-1 (0-based)
RECURSIVE SliceTokens(_, _, _)
SliceTokens(text, lo, hi) ==
  IF text = <<>> \/ hi <= 0 \/ lo >= hi THEN <<>>
  ELSE LET r == Head(text)
           from == IF lo > 0 THEN lo ELSE 0
           to == IF hi < r.n THEN hi ELSE r.n
           half == IF r.half = 0 THEN 0 ELSE ((r.half - 1 + from) % 2) + 1
           rest == SliceTokens(Tail(text), lo - r.n, hi - r.n)
       IN IF to > from
          THEN <<[ws |-> r.ws, n |-> to - from, half |-> half]>> \o rest
          ELSE rest

\* enc.decode(tokens): the bytes of the tokens read as UTF-8; a token cut off
\* from the other token of its character decodes to a replacement character
RECURSIVE Decode(_)
Decode(tokens) ==
  IF tokens = <<>> THEN <<>>
  ELSE LET r == Head(tokens)
           lead == IF r.half = 2 THEN 1 ELSE 0
           whole == ((r.n - lead) \div 2) * 2
           trail == (r.n - lead) % 2
           replacement == <<Tok(FALSE, 1)>>
       IN IF r.half = 0 THEN <<r>> \o Decode(Tail(tokens))
          ELSE (IF lead > 0 THEN replacement ELSE <<>>)
               \o (IF whole > 0 THEN <<Wide(whole)>> ELSE <<>>)
               \o (IF trail > 0 THEN replacement ELSE <<>>)
               \o Decode(Tail(tokens))

\* text.trim().length === 0
IsBlankText(text) == \A i \in 1..Len(text) : text[i].ws

OneChunk(tokens, chunksCount, maxTokensPerChunk) == 1
RECURSIVE FewestCount(_, _, _)
FewestCount(tokens, chunksCount, maxTokensPerChunk) ==
  IF CeilDiv(tokens, chunksCount) > maxTokensPerChunk
  THEN FewestCount(tokens, chunksCount + 1, maxTokensPerChunk)
  ELSE chunksCount
RECURSIVE ChunksCount(_, _, _)
ChunksCount(tokens, chunksCount, maxTokensPerChunk) ==
  IF CeilDiv(tokens, chunksCount) > maxTokensPerChunk
  THEN ChunksCount(tokens, chunksCount * 2, maxTokensPerChunk)
  ELSE chunksCount

RECURSIVE SliceLoopKeepsBlank(_, _, _, _)
SliceLoopKeepsBlank(text, i, chunkSize, total) ==
  IF i >= total THEN <<>>
  ELSE <<Decode(SliceTokens(text, i, i + chunkSize))>>
       \o SliceLoopKeepsBlank(text, i + chunkSize, chunkSize, total)
RECURSIVE SliceLoop(_, _, _, _)
SliceLoop(text, i, chunkSize, total) ==
  IF i >= total THEN <<>>
  ELSE LET chunkText == Decode(SliceTokens(text, i, i + chunkSize))
           rest == SliceLoop(text, i + chunkSize, chunkSize, total)
       IN IF ~IsBlankText(chunkText) THEN <<chunkText>> \o rest ELSE rest

splitByTokens(text, maxTokensPerChunk) ==
  LET total == TokenCount(text)
  IN IF total = 0 THEN <<>>
     ELSE SliceLoop(text, 0,
            CeilDiv(total, ChunksCount(total, 1, maxTokensPerChunk)), total)

\* ----------------------------------------------------------------- paths
Root == <<"/">>
DotGit == <<"", "git">>
RepoPath == <<Root, <<"repo">>>>
Cwd == <<Root, <<"srv">>>>

IsAbsolute(p) == Len(p) > 0 /\ p[1] = Root

PathJoin(base, rel) == base \o rel

PathResolve(p) == IF IsAbsolute(p) THEN p ELSE Cwd \o p

\* path.extname of the last segment
ExtName(p) ==
  LET name == p[Len(p)]
  IN IF Len(name) = 1 THEN ""
     ELSE IF Len(name) = 2 /\ name[1] = "" THEN ""
     ELSE "." \o name[Len(name)]

IsEligible(p) == Len(p) > 0 /\ ExtName(p) \in JS_EXTENSIONS

filterJsFiles(files) == SelectSeq(files, IsEligible)

\* --------------------------------------------------------------- strings
BlankString(s) == s \in {"", " "}

\* ------------------------------------------------------- store: the rows
AnyId(id) == TRUE
\* Number.isInteger(id) && id > 0, for ids that are integers
ValidId(id) == id > 0

NewId(rows) == IF rows = {} THEN 1 ELSE SetMax({r.id : r \in rows}) + 1

\* vector32(JSON.stringify(embedding)): the numbers rounded to single
\* precision, which is what Float32Array reads back
ToFloat32(e) == [e EXCEPT !.single = TRUE]

ChunkRowsFirstOnly(id, embeddings, upTo) ==
  {[functionId |-> id, chunkIndex |-> i - 1, vector |-> ToFloat32(embeddings[i])] :
     i \in 1..(IF upTo > 1 THEN 1 ELSE upTo)}
ChunkRows(id, embeddings, upTo) ==
  {[functionId |-> id, chunkIndex |-> i - 1, vector |-> ToFloat32(embeddings[i])] :
     i \in 1..upTo}

AnyEmbedding(e) == TRUE
ValidEmbedding(e) == e.dim = EMBEDDING_DIMENSION /\ e.numeric

ValidInput(input) ==
  /\ ~BlankString(input.name)
  /\ ~IsBlankText(input.code)
  /\ input.filePath # <<>>
  /\ Len(input.embeddings) > 0
  /\ \A i \in 1..Len(input.embeddings) : ValidEmbedding(input.embeddings[i])

\* a failed transaction leaves the committed database
RollbackKeepsPartial(db, tx) == tx
Rollback(db, tx) == db

\* saveFunction: failAt = 0 fails the function insert, failAt = i fails the
\* insert of chunk i (1-based), NoFault commits.
saveFunction(db, input, failAt) ==
  IF ~ValidInput(input)
  THEN [db |-> db, ok |-> FALSE, id |-> 0, reason |-> "validation"]
  ELSE LET id == NewId(db.functions)
           row == [id |-> id, name |-> input.name, code |-> input.code,
                   filePath |-> input.filePath]
           n == Len(input.embeddings)
           Tx(k) == [functions |-> db.functions \cup {row},
                     functionEmbeddings |-> db.functionEmbeddings
                        \cup ChunkRows(id, input.embeddings, k),
                     inserts |-> db.inserts + 1]
       IN IF failAt = 0
          THEN [db |-> Rollback(db, db), ok |-> FALSE, id |-> 0,
                reason |-> "function"]
          ELSE IF failAt \in 1..n
          THEN [db |-> Rollback(db, Tx(failAt - 1)), ok |-> FALSE, id |-> 0,
                reason |-> "chunk"]
          ELSE [db |-> Tx(n), ok |-> TRUE, id |-> id, reason |-> "ok"]

DeleteOnlyFunctionRow(db, id, fail) ==
  IF id <= 0 \/ fail THEN [db |-> db, ok |-> FALSE, reason |-> "validation"]
  ELSE [db |-> [db EXCEPT !.functions = {f \in db.functions : f.id # id}],
        ok |-> TRUE, reason |-> "ok"]
DeleteOnlyChunks(db, id, fail) ==
  IF id <= 0 \/ fail THEN [db |-> db, ok |-> FALSE, reason |-> "validation"]
  ELSE [db |-> [db EXCEPT !.functionEmbeddings =
                  {c \in db.functionEmbeddings : c.functionId # id}],
        ok |-> TRUE, reason |-> "ok"]
\* deleteFunction: fail makes the second delete of the transaction fail
deleteFunction(db, id, fail) ==
  IF ~ValidId(id) THEN [db |-> db, ok |-> FALSE, reason |-> "validation"]
  ELSE LET chunksGone ==
             [db EXCEPT !.functionEmbeddings =
                {c \in db.functionEmbeddings : c.functionId # id}]
           bothGone ==
             [chunksGone EXCEPT !.functions =
                {f \in db.functions : f.id # id}]
       IN IF fail THEN [db |-> Rollback(db, chunksGone), ok |-> FALSE,
                        reason |-> "transaction"]
          ELSE [db |-> bothGone, ok |-> TRUE, reason |-> "ok"]

\* chunk vectors ordered by chunkIndex
RECURSIVE OrderedVectors(_)
OrderedVectors(rows) ==
  IF rows = {} THEN <<>>
  ELSE LET m == CHOOSE r \in rows :
                  \A q \in rows : r.chunkIndex <= q.chunkIndex
       IN <<m.vector>> \o OrderedVectors(rows \ {m})

WithChunks(func, chunkRows) ==
  [id |-> func.id, name |-> func.name, code |-> func.code,
   filePath |-> func.filePath,
   embeddings |-> OrderedVectors({c \in chunkRows : c.functionId = func.id})]

\* vector_distance_cos: the distance of two vectors, here of the texts they
\* embed (zero vectors, whose cosine distance is undefined, are left out)
Dist(a, b) ==
  LET x == TokenCount(a.text)
      y == TokenCount(b.text)
  IN IF x < y THEN y - x ELSE x - y

OrderByDistanceDesc(rows, embedding) ==
  {r \in rows :
     \A q \in rows : Dist(r.vector, embedding) >= Dist(q.vector, embedding)}
\* ORDER BY distance: the rows that may come first
OrderByDistance(rows, embedding) ==
  {r \in rows :
     \A q \in rows : Dist(r.vector, embedding) <= Dist(q.vector, embedding)}

NoLimit(topK, taken) == FALSE
\* LIMIT topK
LimitReached(topK, taken) == taken >= topK

\* SELECT fe.functionId, distance ... ORDER BY distance LIMIT topK: every list
\* the statement may return (rows of equal distance come in any order)
RECURSIVE RawResults(_, _, _, _)
RawResults(rows, embedding, topK, taken) ==
  IF LimitReached(topK, taken) \/ rows = {} THEN {<<>>}
  ELSE UNION {
         {<<[functionId |-> m.functionId,
             distance |-> Dist(m.vector, ToFloat32(embedding))]>> \o rest :
            rest \in RawResults(rows \ {m}, embedding, topK, taken + 1)} :
         m \in OrderByDistance(rows, ToFloat32(embedding))}

\* the getFunctionById lookups and the final map/filter of searchSimilar
RECURSIVE JoinFunctions(_, _)
JoinFunctions(raw, db) ==
  IF raw = <<>> THEN <<>>
  ELSE LET found == {f \in db.functions : f.id = Head(raw).functionId}
       IN (IF found = {} THEN <<>>
           ELSE <<[functionWithChunks |->
                     WithChunks(CHOOSE f \in found : TRUE,
                                db.functionEmbeddings),
                   distance |-> Head(raw).distance]>>)
          \o JoinFunctions(Tail(raw), db)

\* ------------------------------------------------------------ the inputs
SmallCode == <<Tok(FALSE, 50)>>
BigCode == <<Tok(FALSE, 9000)>>
\* 9,000 tokens whose two halves differ
SplitCode == <<Tok(FALSE, 4500), Tok(TRUE, 1), Tok(FALSE, 4499)>>

Vec(text) ==
  [dim |-> EMBEDDING_DIMENSION, numeric |-> TRUE, single |-> FALSE,
   text |-> text]

P_a == <<<<"a", "js">>>>
P_b == <<<<"nested">>, <<"b", "cjs">>>>
P_readme == <<<<"README", "md">>>>
P_git == <<DotGit, <<"hook", "js">>>>

GoodInput(name, rel, k) ==
  [name |-> name, code |-> SmallCode, filePath |-> PathJoin(RepoPath, rel),
   embeddings |-> [i \in 1..k |-> Vec(<<Tok(FALSE, i)>>)]]

StoreInputs ==
  {GoodInput("f", P_a, 1), GoodInput("g", P_a, 2), GoodInput("f", P_b, 1),
   [GoodInput("f", P_a, 1) EXCEPT !.name = " "],
   [GoodInput("f", P_a, 1) EXCEPT !.code = <<Tok(TRUE, 3)>>],
   [GoodInput("f", P_a, 1) EXCEPT !.filePath = <<>>],
   [GoodInput("f", P_a, 1) EXCEPT !.embeddings = <<>>],
   [GoodInput("f", P_a, 2) EXCEPT !.embeddings[2].dim = 1024],
   [GoodInput("f", P_a, 2) EXCEPT !.embeddings[2].numeric = FALSE]}

SearchQueries ==
  {Vec(<<Tok(FALSE, 1)>>), Vec(<<Tok(FALSE, 3)>>),
   [Vec(<<Tok(FALSE, 1)>>) EXCEPT !.dim = 1024],
   [Vec(<<Tok(FALSE, 1)>>) EXCEPT !.numeric = FALSE]}

\* ------------------------------------------------------- index state rows
getIndexState(rows, repoPath) ==
  IF repoPath = <<>> THEN [ok |-> FALSE, found |-> FALSE, lastIndexedCommit |-> 0]
  ELSE LET hit == {r \in rows : r.repoPath = repoPath}
       IN IF hit = {}
          THEN [ok |-> TRUE, found |-> FALSE, lastIndexedCommit |-> 0]
          ELSE [ok |-> TRUE, found |-> TRUE,
                lastIndexedCommit |-> (CHOOSE r \in hit : TRUE).lastIndexedCommit]

\* INSERT ... ON CONFLICT(repoPath) DO UPDATE; a commit id of 0 stands for
\* the empty string
setIndexState(rows, repoPath, lastIndexedCommit) ==
  IF repoPath = <<>> \/ lastIndexedCommit = 0
  THEN [ok |-> FALSE, rows |-> rows]
  ELSE [ok |-> TRUE,
        rows |-> {r \in rows : r.repoPath # repoPath}
                 \cup {[repoPath |-> repoPath,
                        lastIndexedCommit |-> lastIndexedCommit]}]

\* -------------------------------------------------- opening the store file
\* a build of the server: the dimension of its embedding model and the
\* dimension of the vector column that its migrations create
Builds == {[EMBEDDING_DIM |-> EMBEDDING_DIM, schema |-> 1536],
           [EMBEDDING_DIM |-> 1024, schema |-> 1024]}

\* what the file system and the migrator do to one initializeDatabase call
Envs == {"ok", "schemaUnreadable", "unlinkFails", "noMigrations",
         "migrateFails"}

\* F32_BLOB(N) of the functionEmbeddings table; 0 stands for null (no table,
\* no match, or the query threw)
getDatabaseEmbeddingDimension(file, env) ==
  IF env = "schemaUnreadable" THEN 0 ELSE file.dim

CompatibleAlways(file, env, build) ==
  [compatible |-> TRUE, dbDimension |-> 0]
checkDimensionCompatibility(file, env, build) ==
  LET dbDimension == getDatabaseEmbeddingDimension(file, env)
  IN IF dbDimension = 0 THEN [compatible |-> TRUE, dbDimension |-> 0]
     ELSE IF dbDimension # build.EMBEDDING_DIM
     THEN [compatible |-> FALSE, dbDimension |-> dbDimension]
     ELSE [compatible |-> TRUE, dbDimension |-> dbDimension]

\* migrate(db, {migrationsFolder}): creates the tables of the build when the
\* file has none
Migrate(file, build) ==
  [exists |-> TRUE, dim |-> IF file.dim = 0 THEN build.schema ELSE file.dim]

NoConn == [kind |-> "none", isNewDatabase |-> FALSE,
           dimensionMismatchRebuild |-> FALSE]

initializeDatabase(file, db, build, env) ==
  LET existed == file.exists
      compatibility == checkDimensionCompatibility(file, env, build)
      rebuild == existed /\ ~compatibility.compatible
      isNewDatabase == ~existed \/ rebuild
      thrown == [NoConn EXCEPT !.kind = "thrown"]
      emptied == [db EXCEPT !.functions = {}, !.functionEmbeddings = {}]
      \* after unlink(dbPath) and createClient
      opened == IF rebuild THEN [exists |-> TRUE, dim |-> 0]
                ELSE [exists |-> TRUE, dim |-> file.dim]
      rows == IF rebuild THEN emptied ELSE db
  IN IF rebuild /\ env = "unlinkFails"
     THEN [file |-> file, db |-> db, unlinked |-> FALSE, conn |-> thrown]
     ELSE IF env \in {"noMigrations", "migrateFails"}
     THEN [file |-> opened, db |-> rows, unlinked |-> rebuild, conn |-> thrown]
     ELSE [file |-> Migrate(opened, build), db |-> rows, unlinked |-> rebuild,
           conn |-> [kind |-> "open", isNewDatabase |-> isNewDatabase,
                     dimensionMismatchRebuild |-> rebuild]]

\* await unlink(dbPath): the indexState table goes with the file
DropsFunctionTablesOnly(rows) == rows
UnlinkIndexState(rows) == {}

\* ------------------------------------------------------ the working copy
Missing == [kind |-> "missing", fns |-> <<>>]
Bad == [kind |-> "bad", fns |-> <<>>]
Doc(v) == [kind |-> v, fns |-> <<>>]
Src(fns) == [kind |-> "source", fns |-> fns]

FnF == [name |-> "f", code |-> SmallCode]
FnG == [name |-> "g", code |-> SplitCode]
FnH == [name |-> "h", code |-> SmallCode]

Tracked == {P_a, P_b, P_readme}
AllRelPaths == <<P_git, P_readme, P_a, P_b>>

ContentsOf(p) ==
  IF p = P_a THEN {Missing, Bad, Src(<<FnF, FnG>>)}
  ELSE IF p = P_b THEN {Missing, Src(<<>>), Src(<<FnH>>)}
  ELSE {Doc("doc1"), Doc("doc2")}

AllContents == UNION {ContentsOf(p) : p \in Tracked}

Trees == {t \in [Tracked -> AllContents] : \A p \in Tracked : t[p] \in ContentsOf(p)}

EmptyTree == [p \in Tracked |-> Missing]

\* content of a file of the working copy, by relative path
DiskContent(tree, rel) ==
  IF rel \in Tracked THEN tree[rel]
  ELSE IF rel = P_git THEN Doc("hook")
  ELSE Missing

\* absolute paths of the files on disk below the repository path
DiskFiles(tree) ==
  LET present(rel) == DiskContent(tree, rel).kind # "missing"
      rels == SelectSeq(AllRelPaths, present)
  IN [i \in 1..Len(rels) |-> PathJoin(RepoPath, rels[i])]

IsPrefix(d, p) == Len(p) > Len(d) /\ SubSeq(p, 1, Len(d)) = d

\* fs.readdir(rootDir): the entry names in directory order
RECURSIVE ReadDir(_, _, _)
ReadDir(files, rootDir, seen) ==
  IF files = <<>> THEN <<>>
  ELSE LET p == Head(files)
       IN IF IsPrefix(rootDir, p) /\ p[Len(rootDir) + 1] \notin seen
          THEN <<p[Len(rootDir) + 1]>>
               \o ReadDir(Tail(files), rootDir, seen \cup {p[Len(rootDir) + 1]})
          ELSE ReadDir(Tail(files), rootDir, seen)

IsDirectory(files, path) == \E i \in 1..Len(files) : IsPrefix(path, files[i])

RECURSIVE WalkKeepsGit(_, _, _)
WalkKeepsGit(files, rootDir, entries) ==
  IF entries = <<>> THEN <<>>
  ELSE LET fullPath == Append(rootDir, Head(entries))
           rest == WalkKeepsGit(files, rootDir, Tail(entries))
       IN IF IsDirectory(files, fullPath)
          THEN WalkKeepsGit(files, fullPath, ReadDir(files, fullPath, {})) \o rest
          ELSE <<fullPath>> \o rest
RECURSIVE Walk(_, _, _)
Walk(files, rootDir, entries) ==
  IF entries = <<>> THEN <<>>
  ELSE LET fullPath == Append(rootDir, Head(entries))
           rest == Walk(files, rootDir, Tail(entries))
       IN IF Head(entries) = DotGit THEN rest
          ELSE IF IsDirectory(files, fullPath)
          THEN Walk(files, fullPath, ReadDir(files, fullPath, {})) \o rest
          ELSE <<fullPath>> \o rest

listFilesRecursively(files, rootDir) ==
  Walk(files, rootDir, ReadDir(files, rootDir, {}))

\* ------------------------------------------------------- function parser
extractFunctions(tree, filePath) ==
  IF filePath = <<>> THEN [ok |-> FALSE, fns |-> <<>>]
  ELSE LET normalizedPath == PathResolve(filePath)
           rel == SubSeq(normalizedPath, Len(RepoPath) + 1, Len(normalizedPath))
           content == IF IsPrefix(RepoPath, normalizedPath)
                      THEN DiskContent(tree, rel) ELSE Missing
           keep(d) == ~BlankString(d.name) /\ ~IsBlankText(d.code)
           kept == SelectSeq(content.fns, keep)
       IN IF content.kind \in {"missing", "bad"} THEN [ok |-> FALSE, fns |-> <<>>]
          ELSE [ok |-> TRUE,
                fns |-> [i \in 1..Len(kept) |->
                           [name |-> kept[i].name, code |-> kept[i].code,
                            filePath |-> normalizedPath]]]

\* ---------------------------------------------------- embedding provider
Backends == {"ok", "throw", "short", "baddim"}

\* the backends of the single-text and of the batch call
EmbedBackends == Backends \cup {"long", "onebad"}

\* embedMany / embed of the provider: the lengths of the vectors it returns
\* for n inputs (it returned nothing when it throws)
BackendVectors(n, backend) ==
  LET count == IF backend = "short" THEN n - 1
               ELSE IF backend = "long" THEN n + 1
               ELSE IF backend = "throw" THEN 0 ELSE n
  IN [i \in 1..count |->
        IF backend = "baddim" \/ (backend = "onebad" /\ i = count)
        THEN 1024 ELSE EMBEDDING_DIM]

CountOnly(vectors, n) == Len(vectors) = n
\* the post-call validation: the count and every vector length
ResponseAccepted(vectors, n) ==
  /\ Len(vectors) = n
  /\ \A i \in 1..Len(vectors) : vectors[i] = EMBEDDING_DIM

CallsBackendFirst(texts) == FALSE
\* the input validation of embedText and embedManyTexts
RejectedInput(texts) ==
  texts = <<>> \/ \E i \in 1..Len(texts) : IsBlankText(texts[i])

embedManyTexts(texts, backend) ==
  IF RejectedInput(texts)
  THEN [ok |-> FALSE, results |-> <<>>, calls |-> 0]
  ELSE LET vectors == BackendVectors(Len(texts), backend)
       IN IF backend = "throw" \/ ~ResponseAccepted(vectors, Len(texts))
          THEN [ok |-> FALSE, results |-> <<>>, calls |-> 1]
          ELSE [ok |-> TRUE,
                results |-> [i \in 1..Len(texts) |->
                               [embedding |-> Vec(texts[i]), text |-> texts[i]]],
                calls |-> 1]

embedText(text, backend) ==
  IF RejectedInput(<<text>>)
  THEN [ok |-> FALSE, results |-> <<>>, calls |-> 0]
  ELSE LET vectors == BackendVectors(1, backend)
       IN IF backend = "throw" \/ ~ResponseAccepted(vectors, 1)
          THEN [ok |-> FALSE, results |-> <<>>, calls |-> 1]
          ELSE [ok |-> TRUE, results |-> <<Vec(text)>>, calls |-> 1]

\* ---------------------------------------------------------- orchestrator
NoFaultRec == [stage |-> "none", at |-> 0, backend |-> "ok"]

Faults ==
  {NoFaultRec}
  \cup {[stage |-> "clean", at |-> k, backend |-> "ok"] : k \in 0..1}
  \cup {[stage |-> "embed", at |-> k, backend |-> b] :
          k \in 1..2, b \in Backends \ {"ok"}}
  \cup {[stage |-> "save", at |-> k, backend |-> "ok"] : k \in 1..2}

\* rows of a file, oldest first
RECURSIVE IdsAscending(_)
IdsAscending(ids) ==
  IF ids = {} THEN <<>>
  ELSE LET m == CHOOSE x \in ids : \A y \in ids : x <= y
       IN <<m>> \o IdsAscending(ids \ {m})

RECURSIVE DeleteEach(_, _, _)
DeleteEach(db, ids, failAfter) ==
  IF ids = <<>> THEN [db |-> db, ok |-> failAfter # 0]
  ELSE IF failAfter = 0 THEN [db |-> db, ok |-> FALSE]
  ELSE DeleteEach(deleteFunction(db, Head(ids), FALSE).db, Tail(ids),
                  IF failAfter > 0 THEN failAfter - 1 ELSE failAfter)

CleanEveryFile(db, filePath, fault) ==
  DeleteEach(db, IdsAscending({f.id : f \in db.functions}),
             IF fault.stage = "clean" THEN fault.at ELSE NoFault)
CleanNothing(db, filePath, fault) ==
  [db |-> db, ok |-> fault.stage # "clean"]
\* "Clean previous entries for the file": fault at k deletes k rows, then throws
CleanFile(db, filePath, fault) ==
  LET existing == {f \in db.functions : f.filePath = PathResolve(filePath)}
  IN DeleteEach(db, IdsAscending({f.id : f \in existing}),
                IF fault.stage = "clean" THEN fault.at ELSE NoFault)

ReverseEmbeddings(results) ==
  [i \in 1..Len(results) |-> results[Len(results) + 1 - i].embedding]
\* results.map((r) => r?.embedding).filter(Array.isArray(e) && e.length > 0)
FilterEmbeddings(results) ==
  LET arrays == SelectSeq(results, LAMBDA r : r.embedding.dim > 0)
  IN [i \in 1..Len(arrays) |-> arrays[i].embedding]

RECURSIVE SaveLoop(_, _, _, _, _)
SaveLoop(db, fns, j, fault, acc) ==
  IF j > Len(fns) THEN [acc EXCEPT !.db = db]
  ELSE LET fn == fns[j]
           chunks == splitByTokens(fn.code, MAX_TOKENS_PER_CHUNK)
           em == embedManyTexts(chunks,
                   IF fault.stage = "embed" /\ fault.at = j
                   THEN fault.backend ELSE "ok")
           embeddings == FilterEmbeddings(em.results)
           sv == saveFunction(db,
                   [name |-> fn.name, code |-> fn.code,
                    filePath |-> fn.filePath, embeddings |-> embeddings],
                   IF fault.stage = "save" /\ fault.at = j THEN 1 ELSE NoFault)
           called == [acc EXCEPT !.embedCalls = @ + em.calls]
       IN IF chunks = <<>> THEN SaveLoop(db, fns, j + 1, fault, acc)
          ELSE IF ~em.ok THEN [called EXCEPT !.db = db, !.failed = TRUE]
          ELSE IF embeddings = <<>> THEN SaveLoop(db, fns, j + 1, fault, called)
          ELSE IF ~sv.ok
          THEN [called EXCEPT !.db = sv.db, !.failed = TRUE]
          ELSE SaveLoop(sv.db, fns, j + 1, fault,
                        [called EXCEPT !.saved = @ + 1])

\* the fault names a statement that the iteration of this file executes
FaultApplies(db, tree, filePath, fault) ==
  LET existing == {f \in db.functions : f.filePath = PathResolve(filePath)}
      ex == extractFunctions(tree, filePath)
  IN IF fault.stage = "none" THEN TRUE
     ELSE IF fault.stage = "clean"
     THEN fault.at = 0 \/ fault.at < Cardinality(existing)
     ELSE ex.ok /\ fault.at <= Len(ex.fns)

\* the body of the per-file try block
IndexFile(db, tree, filePath, fault) ==
  LET zero == [db |-> db, saved |-> 0, extractCalls |-> 0,
               embedCalls |-> 0, failed |-> FALSE]
      cl == CleanFile(db, filePath, fault)
      ex == extractFunctions(tree, filePath)
      extracted == [zero EXCEPT !.db = cl.db, !.extractCalls = 1]
  IN IF ~cl.ok THEN [zero EXCEPT !.db = cl.db, !.failed = TRUE]
     ELSE IF ~ex.ok THEN [extracted EXCEPT !.failed = TRUE]
     ELSE IF Len(ex.fns) = 0 THEN extracted
     ELSE SaveLoop(cl.db, ex.fns, 1, fault, extracted)

StateAlwaysStale(state, headCommit) == TRUE
StateMissingOnly(state, headCommit) == ~state.found
StateDecidesFullScan(state, headCommit) ==
  ~state.found \/ state.lastIndexedCommit # headCommit

\* the scope decision
TargetFiles(fullRescan, repo, rows, headCommit, disk) ==
  IF fullRescan \/ repo.isNewClone
  THEN filterJsFiles(listFilesRecursively(disk, repo.path))
  ELSE LET candidate == [i \in 1..Len(repo.files) |->
                           PathJoin(repo.path, repo.files[i])]
           changed == filterJsFiles(candidate)
       IN IF Len(changed) = 0
          THEN IF StateDecidesFullScan(getIndexState(rows, repo.path), headCommit)
               THEN filterJsFiles(listFilesRecursively(disk, repo.path))
               ELSE changed
          ELSE changed

ShouldUpdateAlways(saved) == TRUE
ShouldUpdateState(saved) == saved > 0

\* ----------------------------------------------------------------- state
VARIABLES functions, functionEmbeddings, inserts, storeOps, lastOp, rd,
          rdResult,
          indexState, indexWrites, cloneExists, headCommit, workTree,
          pc, run, obs, prev, outcome, runs, lastOk,
          dbFile, conn,
          dir, ops, initializationPromise, callers,
          chPc, chText, chBound, chChunks,
          emPc, emTexts, emBackend, emOut, toolOut,
          flPc, flFiles, flOut,
          srv

storeVars == <<functions, functionEmbeddings, inserts, storeOps, lastOp>>
readerVars == <<rd, rdResult>>
repoVars == <<cloneExists, headCommit, workTree>>
orchVars == <<indexState, indexWrites, cloneExists, headCommit, workTree,
              pc, run, obs, prev, outcome, runs, lastOk>>
runVars == <<indexWrites, cloneExists, headCommit, workTree,
             pc, run, obs, prev, outcome, runs, lastOk>>
openVars == <<dbFile, conn>>
syncVars == <<dir, ops, initializationPromise, callers>>
chunkVars == <<chPc, chText, chBound, chChunks>>
embedVars == <<emPc, emTexts, emBackend, emOut>>
toolVars == <<toolOut>>
filterVars == <<flPc, flFiles, flOut>>
mainVars == <<srv>>
vars == <<functions, functionEmbeddings, inserts, storeOps, lastOp, rd,
          rdResult,
          indexState, indexWrites, cloneExists, headCommit, workTree,
          pc, run, obs, prev, outcome, runs, lastOk,
          dbFile, conn,
          dir, ops, initializationPromise, callers,
          chPc, chText, chBound, chChunks,
          emPc, emTexts, emBackend, emOut, toolOut,
          flPc, flFiles, flOut,
          srv>>

Db == [functions |-> functions, functionEmbeddings |-> functionEmbeddings,
       inserts |-> inserts]

NoRun == [fullRescan |-> FALSE, isNewClone |-> FALSE, files |-> <<>>,
          head |-> 0, state |-> getIndexState({}, RepoPath),
          targetFiles |-> <<>>, idx |-> 1, savedFunctions |-> 0]

\* what a run has been seen to do; everFailed: a file failed in this run or in
\* an earlier one
NoObs == [extractCalls |-> 0, embedCalls |-> 0, attempted |-> <<>>,
          failed |-> {}, insertsAtStart |-> 0, everFailed |-> FALSE]

NoOutcome == [kind |-> "none", processedFiles |-> <<>>, savedFunctions |-> 0,
              head |-> 0]

StoreInit ==
  /\ functions = {}
  /\ functionEmbeddings = {}
  /\ inserts = 0
  /\ storeOps = 0
  /\ lastOp = [op |-> "none", ok |-> TRUE, arg |-> 0, reason |-> "ok"]
  /\ rd = [pc |-> "idle"]
  /\ rdResult = [kind |-> "none"]

OrchInit ==
  /\ indexState = {}
  /\ indexWrites = 0
  /\ cloneExists = FALSE
  /\ headCommit = 0
  /\ workTree = EmptyTree
  /\ pc = "idle"
  /\ run = NoRun
  /\ obs = NoObs
  /\ prev = NoOutcome
  /\ outcome = NoOutcome
  /\ runs = 0
  /\ lastOk = [p \in {P_a, P_b} |-> Missing]

\* conn: the result of the last initializeDatabase call, the build and the
\* environment of that call, the number of calls so far, and the number of
\* orchestrator runs that had ended when the call was made
ConnOf(result, build, env, opens) ==
  [kind |-> result.kind, isNewDatabase |-> result.isNewDatabase,
   dimensionMismatchRebuild |-> result.dimensionMismatchRebuild,
   dim |-> build.EMBEDDING_DIM, env |-> env, opens |-> opens,
   runsAtOpen |-> runs]

Build1536 == [EMBEDDING_DIM |-> EMBEDDING_DIM, schema |-> 1536]

\* the store file as the 1536 build created it, opened by that build
OpenIdle ==
  /\ dbFile = [exists |-> TRUE, dim |-> 1536]
  /\ conn = ConnOf([NoConn EXCEPT !.kind = "open", !.isNewDatabase = TRUE],
                   Build1536, "ok", 1)

SyncIdle ==
  /\ dir = [kind |-> "absent", dirty |-> FALSE]
  /\ ops = <<>>
  /\ initializationPromise = 0
  /\ callers = <<>>

ChunkIdle ==
  /\ chPc = "idle"
  /\ chText = <<>>
  /\ chBound = 1
  /\ chChunks = <<>>

NoEmbedOut == [call |-> "none", ok |-> FALSE, results |-> <<>>, calls |-> 0]

EmbedIdle ==
  /\ emPc = "idle"
  /\ emTexts = <<>>
  /\ emBackend = "ok"
  /\ emOut = NoEmbedOut

ToolIdle == toolOut = [kind |-> "none"]

FilterIdle ==
  /\ flPc = "idle"
  /\ flFiles = <<>>
  /\ flOut = <<>>

\* the server process before main() runs: nothing registered, not connected
NoServer == [pc |-> "start", dbInstance |-> FALSE, connected |-> FALSE,
             indexing |-> "none", exit |-> "none", calls |-> <<>>]

MainIdle == srv = NoServer

CallIdle == ChunkIdle /\ EmbedIdle /\ ToolIdle /\ FilterIdle /\ MainIdle

Init == StoreInit /\ OrchInit /\ OpenIdle /\ SyncIdle /\ CallIdle
\* ------------------------------------------- store calls from any caller
\* lastOp.input: what a saveFunction call that succeeded was given (it
\* returns these fields with the new id)
SaveFunctionCall ==
  \E input \in StoreInputs, failAt \in {NoFault, 0, 1, 2} :
    /\ storeOps < MaxStoreOps
    /\ failAt <= Len(input.embeddings)
    /\ LET r == saveFunction(Db, input, failAt)
       IN /\ functions' = r.db.functions
          /\ functionEmbeddings' = r.db.functionEmbeddings
          /\ inserts' = r.db.inserts
          /\ lastOp' = [op |-> "save", ok |-> r.ok, arg |-> r.id,
                       reason |-> r.reason,
                       input |-> IF r.ok THEN input ELSE <<>>]
    /\ storeOps' = storeOps + 1
    /\ UNCHANGED <<openVars, syncVars, chunkVars, embedVars, toolVars, filterVars, mainVars, readerVars, orchVars>>

DeleteFunctionCall ==
  \E id \in 0..3, fail \in BOOLEAN :
    /\ storeOps < MaxStoreOps
    /\ LET r == deleteFunction(Db, id, fail)
       IN /\ functions' = r.db.functions
          /\ functionEmbeddings' = r.db.functionEmbeddings
          /\ inserts' = r.db.inserts
          /\ lastOp' = [op |-> "delete", ok |-> r.ok, arg |-> id,
                       reason |-> r.reason]
    /\ storeOps' = storeOps + 1
    /\ UNCHANGED <<openVars, syncVars, chunkVars, embedVars, toolVars, filterVars, mainVars, readerVars, orchVars>>

\* getFunctionById: first statement, the function row
GetByIdSelectFunction ==
  \E id \in 0..3 :
    /\ rd.pc = "idle"
    /\ IF ~ValidId(id)
       THEN /\ rd' = rd
            /\ rdResult' = [kind |-> "error", call |-> "getFunctionById",
                            arg |-> id]
       ELSE LET found == {f \in functions : f.id = id}
            IN IF found = {}
               THEN /\ rd' = rd
                    /\ rdResult' = [kind |-> "null",
                                    call |-> "getFunctionById", arg |-> id]
               ELSE /\ rd' = [pc |-> "byIdChunks", rows |-> found]
                    /\ rdResult' = [kind |-> "none"]
    /\ UNCHANGED <<openVars, syncVars, chunkVars, embedVars, toolVars, filterVars, mainVars, storeVars, orchVars>>

\* getFunctionById: second statement, the chunks of that id
GetByIdSelectChunks ==
  /\ rd.pc = "byIdChunks"
  /\ rdResult' = [kind |-> "functions",
                  rows |-> {WithChunks(f, functionEmbeddings) : f \in rd.rows}]
  /\ rd' = [pc |-> "idle"]
  /\ UNCHANGED <<openVars, syncVars, chunkVars, embedVars, toolVars, filterVars, mainVars, storeVars, orchVars>>

\* getFunctionsByFilePath: first statement, the function rows of the file
GetByPathSelectFunctions ==
  \E p \in {<<>>, PathJoin(RepoPath, P_a), PathJoin(RepoPath, P_b)} :
    /\ rd.pc = "idle"
    /\ IF p = <<>>
       THEN /\ rd' = rd
            /\ rdResult' = [kind |-> "error",
                            call |-> "getFunctionsByFilePath"]
       ELSE LET found == {f \in functions : f.filePath = p}
            IN IF found = {}
               THEN /\ rd' = rd
                    /\ rdResult' = [kind |-> "functions", rows |-> {}]
               ELSE /\ rd' = [pc |-> "byPathChunks", rows |-> found]
                    /\ rdResult' = [kind |-> "none"]
    /\ UNCHANGED <<openVars, syncVars, chunkVars, embedVars, toolVars, filterVars, mainVars, storeVars, orchVars>>

\* getFunctionsByFilePath: second statement, the chunks of those ids
GetByPathSelectChunks ==
  /\ rd.pc = "byPathChunks"
  /\ LET ids == {f.id : f \in rd.rows}
         allChunks == {c \in functionEmbeddings : c.functionId \in ids}
     IN rdResult' = [kind |-> "functions",
                     rows |-> {WithChunks(f, allChunks) : f \in rd.rows}]
  /\ rd' = [pc |-> "idle"]
  /\ UNCHANGED <<openVars, syncVars, chunkVars, embedVars, toolVars, filterVars, mainVars, storeVars, orchVars>>

\* searchSimilar: validation and the distance query
SearchSimilarSelect ==
  \E embedding \in SearchQueries, topK \in 0..MaxTopK :
    /\ rd.pc = "idle"
    /\ IF ~ValidEmbedding(embedding) \/ topK <= 0
       THEN /\ rd' = rd
            /\ rdResult' = [kind |-> "error", call |-> "searchSimilar"]
       ELSE \E raw \in RawResults(functionEmbeddings, embedding, topK, 0) :
              /\ rd' = [pc |-> "searchJoin", raw |-> raw,
                        embedding |-> embedding, topK |-> topK,
                        at |-> storeOps]
              /\ rdResult' = [kind |-> "none"]
    /\ UNCHANGED <<openVars, syncVars, chunkVars, embedVars, toolVars, filterVars, mainVars, storeVars, orchVars>>

\* searchSimilar: the lookups of the owning functions and the returned list;
\* quiet records that no store call ran since the distance query
SearchSimilarJoin ==
  /\ rd.pc = "searchJoin"
  /\ rdResult' = [kind |-> "results", call |-> "searchSimilar",
                  embedding |-> rd.embedding, topK |-> rd.topK,
                  quiet |-> rd.at = storeOps,
                  rows |-> JoinFunctions(rd.raw, Db)]
  /\ rd' = [pc |-> "idle"]
  /\ UNCHANGED <<openVars, syncVars, chunkVars, embedVars, toolVars, filterVars, mainVars, storeVars, orchVars>>

StoreNext ==
  \/ SaveFunctionCall
  \/ DeleteFunctionCall
  \/ GetByIdSelectFunction
  \/ GetByIdSelectChunks
  \/ GetByPathSelectFunctions
  \/ GetByPathSelectChunks

StoreSpec == Init /\ [][StoreNext]_vars

\* ------------------------------------ searches next to saves and deletes
SearchStoreCall ==
  /\ storeOps < MaxSearchStoreOps
  /\ (SaveFunctionCall \/ DeleteFunctionCall)

SearchNext ==
  \/ SearchStoreCall
  \/ SearchSimilarSelect
  \/ SearchSimilarJoin

SearchSpec == Init /\ [][SearchNext]_vars

\* ----------------------------------------------- the transformExamples tool
clamp(value, min, max) ==
  LET least == IF value < max THEN value ELSE max
  IN IF min > least THEN min ELSE least

ToolResult(kind, payload, embedTextCalls, searchCalls) ==
  [kind |-> kind, payload |-> payload, embedTextCalls |-> embedTextCalls,
   searchCalls |-> searchCalls]

\* the try block of transformExamplesHandler; topK is <<>> when the caller
\* gave none; raw is what the distance query of searchSimilar returns
TryBlock(text, topK, dbInstance, provider, backend, searchFails, db, raw) ==
  IF IsBlankText(text)
  THEN ToolResult("returned", [error |-> "Text cannot be empty"], 0, 0)
  ELSE IF ~dbInstance
  THEN ToolResult("returned", [error |-> "Database is not initialized"], 0, 0)
  ELSE IF ~provider
  THEN ToolResult("returned", [error |-> "No embedding provider configured"],
                  0, 0)
  ELSE LET em == embedText(text, backend)
       IN IF ~em.ok
          THEN ToolResult("thrown", [error |-> "Failed to generate embedding"],
                          1, 0)
          ELSE IF ~ValidEmbedding(em.results[1]) \/ searchFails
          THEN ToolResult("thrown", [error |-> "search"], 1, 1)
          ELSE LET results == JoinFunctions(raw, db)
                   matches == [i \in 1..Len(results) |->
                                 [name |-> results[i].functionWithChunks.name,
                                  code |-> results[i].functionWithChunks.code]]
               IN ToolResult("returned",
                             [count |-> Len(matches), matches |-> matches],
                             1, 1)

Uncaught(tried) == tried
\* the catch block: whatever the try block threw becomes an error result
CatchBlock(tried) ==
  IF tried.kind = "thrown"
  THEN [tried EXCEPT !.kind = "returned",
                       !.payload = [error |-> "Failed to transform examples",
                                    details |-> tried.payload.error]]
  ELSE tried

ToolTexts == {<<Tok(TRUE, 1)>>, <<Tok(FALSE, 1)>>, <<Tok(FALSE, 3)>>}
ToolTopKs == {<<>>, <<1>>}

\* transformExamplesHandler(text, topK); the handler leaves no state behind,
\* so one call is followed per behaviour
TransformExamplesCall ==
  \E text \in ToolTexts, topK \in ToolTopKs, dbInstance \in BOOLEAN,
     provider \in BOOLEAN, backend \in {"ok", "throw", "baddim"},
     searchFails \in BOOLEAN :
    LET k == clamp(IF topK = <<>> THEN 5 ELSE topK[1], 1, 50)
    IN \E raw \in RawResults(functionEmbeddings, Vec(text), k, 0) :
         /\ toolOut.kind = "none"
         /\ toolOut' =
              [text |-> text, dbInstance |-> dbInstance, provider |-> provider,
               backend |-> backend, searchFails |-> searchFails]
              @@ CatchBlock(TryBlock(text, topK, dbInstance, provider,
                                     backend, searchFails, Db, raw))
         /\ UNCHANGED <<storeVars, readerVars, orchVars, openVars, syncVars,
                        chunkVars, embedVars, filterVars, mainVars>>

ToolStoreCall ==
  /\ storeOps < MaxToolStoreOps
  /\ (SaveFunctionCall \/ DeleteFunctionCall)

ToolNext ==
  \/ ToolStoreCall
  \/ TransformExamplesCall

ToolSpec == Init /\ [][ToolNext]_vars

\* ------------------------------------------------- the server: main()
\* the background indexing of main() ends: a throw of indexVerifiedScripts is
\* caught and logged, the process goes on
UnhandledRejection(result) ==
  [indexing |-> IF result = "thrown" THEN "failed" ELSE "completed",
   exit |-> IF result = "thrown" THEN "rejection" ELSE "none"]
StartupCatch(result) ==
  [indexing |-> IF result = "thrown" THEN "failed" ELSE "completed",
   exit |-> "none"]

\* main().catch: process.exit(1)
StartupError == [srv EXCEPT !.pc = "exited", !.exit = "startup"]

\* const { db } = await initializeDatabase(dbPath); setDbInstance(db)
MainInitializeDatabase ==
  \E env \in Envs :
    /\ srv.pc = "start"
    /\ LET r == initializeDatabase(dbFile, Db, Build1536, env)
       IN /\ dbFile' = r.file
          /\ functions' = r.db.functions
          /\ functionEmbeddings' = r.db.functionEmbeddings
          /\ indexState' = IF r.unlinked THEN UnlinkIndexState(indexState)
                           ELSE indexState
          /\ conn' = ConnOf(r.conn, Build1536, env, conn.opens + 1)
          /\ srv' = IF r.conn.kind = "open"
                    THEN [srv EXCEPT !.pc = "connect", !.dbInstance = TRUE]
                    ELSE StartupError
    /\ UNCHANGED <<inserts, storeOps, lastOp, readerVars, runVars, syncVars,
                   chunkVars, embedVars, toolVars, filterVars>>

\* await server.connect(transport)
MainConnect ==
  \E fails \in BOOLEAN :
    /\ srv.pc = "connect"
    /\ srv' = IF fails THEN StartupError
              ELSE [srv EXCEPT !.pc = "announce", !.connected = TRUE]
    /\ UNCHANGED <<storeVars, readerVars, orchVars, openVars, syncVars,
                   chunkVars, embedVars, toolVars, filterVars>>

\* await server.sendLoggingMessage(...), then the background indexing is
\* started and the signal handlers are registered
MainAnnounce ==
  \E fails \in BOOLEAN :
    /\ srv.pc = "announce"
    /\ srv' = IF fails THEN StartupError
              ELSE [srv EXCEPT !.pc = "serving", !.indexing = "running"]
    /\ UNCHANGED <<storeVars, readerVars, orchVars, openVars, syncVars,
                   chunkVars, embedVars, toolVars, filterVars>>

\* indexVerifiedScripts returns its summary or throws
IndexingSettles ==
  \E result \in {"summary", "thrown"} :
    /\ srv.pc = "serving" /\ srv.indexing = "running"
    /\ LET settled == StartupCatch(result)
       IN srv' = [srv EXCEPT !.indexing = settled.indexing,
                             !.exit = settled.exit,
                             !.pc = IF settled.exit = "none" THEN @
                                    ELSE "exited"]
    /\ UNCHANGED <<storeVars, readerVars, orchVars, openVars, syncVars,
                   chunkVars, embedVars, toolVars, filterVars>>

\* a tool call that the connected server receives: transformExamplesHandler
\* with the database handle that getDbInstance() holds
ServeToolCall ==
  \E text \in {<<Tok(TRUE, 1)>>, <<Tok(FALSE, 1)>>}, backend \in {"ok", "throw"} :
    /\ srv.connected /\ srv.pc # "exited"
    /\ Len(srv.calls) < MaxToolCalls
    /\ srv' = [srv EXCEPT !.calls = Append(@,
                 [indexing |-> srv.indexing,
                  result |-> CatchBlock(TryBlock(text, <<>>, srv.dbInstance,
                                                 TRUE, backend, FALSE, Db,
                                                 <<>>))])]
    /\ UNCHANGED <<storeVars, readerVars, orchVars, openVars, syncVars,
                   chunkVars, embedVars, toolVars, filterVars>>

\* SIGTERM or SIGINT: process.exit(0)
Signal ==
  /\ srv.pc # "exited"
  /\ srv' = [srv EXCEPT !.pc = "exited", !.exit = "signal"]
  /\ UNCHANGED <<storeVars, readerVars, orchVars, openVars, syncVars,
                 chunkVars, embedVars, toolVars, filterVars>>

MainNext ==
  \/ MainInitializeDatabase
  \/ MainConnect
  \/ MainAnnounce
  \/ IndexingSettles
  \/ ServeToolCall
  \/ Signal

MainSpec == Init /\ [][MainNext]_vars

\* ------------------------------------- server processes on one store file
\* main(): await initializeDatabase(dbPath) before any tool call is accepted
InitializeDatabaseCall ==
  \E build \in Builds, env \in Envs :
    /\ conn.kind # "open"
    /\ conn.opens < MaxOpens
    /\ LET r == initializeDatabase(dbFile, Db, build, env)
       IN /\ dbFile' = r.file
          /\ functions' = r.db.functions
          /\ functionEmbeddings' = r.db.functionEmbeddings
          /\ indexState' = IF r.unlinked THEN UnlinkIndexState(indexState)
                           ELSE indexState
          /\ conn' = ConnOf(r.conn, build, env, conn.opens + 1)
    /\ UNCHANGED <<inserts, storeOps, lastOp, readerVars, runVars, syncVars,
                   chunkVars, embedVars, toolVars, filterVars, mainVars>>

\* the process ends; reads in flight end with it
Shutdown ==
  /\ conn.kind = "open"
  /\ conn' = [conn EXCEPT !.kind = "none"]
  /\ rd' = [pc |-> "idle"]
  /\ rdResult' = [kind |-> "none"]
  /\ UNCHANGED <<storeVars, orchVars, dbFile, syncVars, chunkVars, embedVars, toolVars, filterVars, mainVars>>

\* the repository of the 1536 build writes to a store of that dimension
DbWrite ==
  /\ conn.kind = "open"
  /\ conn.dim = EMBEDDING_DIMENSION /\ dbFile.dim = EMBEDDING_DIMENSION
  /\ storeOps < MaxDbWrites
  /\ (SaveFunctionCall \/ DeleteFunctionCall)

DbRead ==
  /\ conn.kind = "open"
  /\ \/ GetByIdSelectFunction
     \/ GetByIdSelectChunks
     \/ GetByPathSelectFunctions
     \/ GetByPathSelectChunks

\* store files left by earlier processes, no process running
DbInit ==
  /\ StoreInit /\ OrchInit /\ SyncIdle /\ CallIdle
  /\ dbFile \in {[exists |-> FALSE, dim |-> 0], [exists |-> TRUE, dim |-> 0],
                 [exists |-> TRUE, dim |-> 1536], [exists |-> TRUE, dim |-> 3072]}
  /\ conn = ConnOf(NoConn, Build1536, "ok", 0)

DbNext ==
  \/ InitializeDatabaseCall
  \/ Shutdown
  \/ DbWrite
  \/ DbRead

DbSpec == DbInit /\ [][DbNext]_vars

\* ------------------------------------------------- repository sync result
\* files reported by the pull: tracked paths whose content changed
ChangedFiles(old, new) ==
  SelectSeq(AllRelPaths, LAMBDA rel : rel \in Tracked /\ old[rel] # new[rel])

\* listAllFiles of a fresh clone: relative paths, .git excluded
ClonedFiles(tree) ==
  LET abs == listFilesRecursively(DiskFiles(tree), RepoPath)
  IN [i \in 1..Len(abs) |-> SubSeq(abs[i], Len(RepoPath) + 1, Len(abs[i]))]

\* ------------------------------------------------------------ the chunker
\* runs of ordinary tokens, of whitespace tokens and of two-token characters
TextRuns ==
  {Tok(ws, n) : ws \in BOOLEAN, n \in 1..MaxRunTokens}
  \cup {Wide(2 * n) : n \in 1..(MaxRunTokens \div 2)}

SameKind(r, q) == r.ws = q.ws /\ (r.half = 0) = (q.half = 0)

\* the texts: no two neighbouring runs of the same kind, and the function
\* bodies of the indexer
Texts ==
  {t \in UNION {[1..k -> TextRuns] : k \in 0..MaxTextRuns} :
     \A i \in 1..(Len(t) - 1) : ~SameKind(t[i], t[i + 1])}
  \cup {SmallCode, BigCode, <<Tok(FALSE, 4500), Tok(TRUE, 4500)>>,
         <<Tok(FALSE, 4499), Wide(4502)>>}

TokenBounds == 1..MaxBound \cup {MAX_TOKENS_PER_CHUNK}

\* splitByTokens(enc, text, maxTokensPerChunk); the function bodies of the
\* indexer are split under the bound of the indexer
SplitCall ==
  /\ chPc = "called"
  /\ chChunks' = splitByTokens(chText, chBound)
  /\ chPc' = "returned"
  /\ UNCHANGED <<storeVars, readerVars, orchVars, openVars, syncVars, chText,
                 chBound, embedVars, toolVars, filterVars, mainVars>>

ChunkInit ==
  /\ StoreInit /\ OrchInit /\ OpenIdle /\ SyncIdle
  /\ EmbedIdle /\ ToolIdle /\ FilterIdle /\ MainIdle
  /\ chPc = "called"
  /\ chText \in Texts
  /\ chBound \in TokenBounds
  /\ TokenCount(chText) > MaxTextRuns * MaxRunTokens
       => chBound = MAX_TOKENS_PER_CHUNK
  /\ chChunks = <<>>

ChunkNext == SplitCall

ChunkSpec == ChunkInit /\ [][ChunkNext]_vars

\* ------------------------------------- the embedding calls as functions
EmbedTexts ==
  {<<>>, <<Tok(TRUE, 1)>>, <<Tok(FALSE, 1)>>, <<Tok(FALSE, 2), Tok(TRUE, 1)>>}

RECURSIVE Batches(_)
Batches(n) ==
  IF n = 0 THEN {<<>>}
  ELSE Batches(n - 1)
       \cup {Append(b, t) : b \in {c \in Batches(n - 1) : Len(c) = n - 1},
                            t \in EmbedTexts}

\* embedManyTexts(texts) against the backend of the state
EmbedManyCall ==
  /\ emPc = "called"
  /\ emOut' = [call |-> "embedManyTexts"] @@ embedManyTexts(emTexts, emBackend)
  /\ emPc' = "returned"
  /\ UNCHANGED <<storeVars, readerVars, orchVars, openVars, syncVars,
                 chunkVars, toolVars, filterVars, mainVars, emTexts, emBackend>>

\* embedText(text), text the only element of the batch of the state
EmbedTextCall ==
  /\ emPc = "called"
  /\ Len(emTexts) = 1
  /\ emBackend \in {"ok", "throw", "baddim"}
  /\ emOut' = [call |-> "embedText"] @@ embedText(emTexts[1], emBackend)
  /\ emPc' = "returned"
  /\ UNCHANGED <<storeVars, readerVars, orchVars, openVars, syncVars,
                 chunkVars, toolVars, filterVars, mainVars, emTexts, emBackend>>

EmbedInit ==
  /\ StoreInit /\ OrchInit /\ OpenIdle /\ SyncIdle
  /\ ChunkIdle /\ ToolIdle /\ FilterIdle /\ MainIdle
  /\ emPc = "called"
  /\ emTexts \in Batches(MaxBatch)
  /\ emBackend \in EmbedBackends
  /\ emOut = NoEmbedOut

EmbedNext == EmbedManyCall \/ EmbedTextCall

EmbedSpec == EmbedInit /\ [][EmbedNext]_vars

\* --------------------------------------- the file filter as a function
P_types == <<<<"types", "d", "ts">>>>
P_config == <<<<"tsconfig", "json">>>>
P_view == <<<<"ui">>, <<"view", "tsx">>>>
P_make == <<<<"Makefile">>>>

FilterPaths == {P_a, P_b, P_view, P_readme, P_types, P_config, P_make}

\* what a file of the working copy is, by its name
FileKind(rel) ==
  LET name == rel[Len(rel)]
  IN IF Len(name) >= 3 /\ name[Len(name) - 1] = "d"
        /\ name[Len(name)] = "ts"
     THEN "declaration"
     ELSE IF Len(name) = 2 /\ name[2] = "md" THEN "documentation"
     ELSE IF Len(name) = 2 /\ name[2] = "json" THEN "configuration"
     ELSE IF Len(name) = 2 THEN "source"
     ELSE "other"

RECURSIVE FileLists(_)
FileLists(n) ==
  IF n = 0 THEN {<<>>}
  ELSE FileLists(n - 1)
       \cup {Append(l, PathJoin(RepoPath, rel)) :
               l \in {c \in FileLists(n - 1) : Len(c) = n - 1},
               rel \in FilterPaths}

\* filterJsFiles(files), which both the incremental and the full scan apply
\* to their candidate list
FilterCall ==
  /\ flPc = "called"
  /\ flOut' = filterJsFiles(flFiles)
  /\ flPc' = "returned"
  /\ UNCHANGED <<storeVars, readerVars, orchVars, openVars, syncVars,
                 chunkVars, embedVars, toolVars, mainVars, flFiles>>

FilterInit ==
  /\ StoreInit /\ OrchInit /\ OpenIdle /\ SyncIdle
  /\ ChunkIdle /\ EmbedIdle /\ ToolIdle /\ MainIdle
  /\ flPc = "called"
  /\ flFiles \in FileLists(MaxFiles)
  /\ flOut = <<>>

FilterNext == FilterCall

FilterSpec == FilterInit /\ [][FilterNext]_vars

\* --------------------------------------------- repository sync, in steps
\* the target directory: absent, a regular file, a directory that is no git
\* working copy (foreign), or a working copy (repo) with or without local
\* modifications
DirKinds == {"absent", "file", "foreign", "repo"}

TargetPaths == {RepoPath, <<<<"repo">>>>}

VerifiedScriptsError(cause) ==
  [name |-> "VerifiedScriptsError", cause |-> cause]

\* the catch block of ensureLatest
WrapDropsCause(error) == VerifiedScriptsError("none")
WrapError(error) ==
  IF error.name = "VerifiedScriptsError" THEN error
  ELSE IF error.name = "GitError" THEN VerifiedScriptsError("GitError")
  ELSE VerifiedScriptsError(error.name)

Pending == [kind |-> "pending"]
Thrown(error) == [kind |-> "thrown", error |-> error]
Returned(path, files, isNewClone) ==
  [kind |-> "returned", path |-> path, files |-> files,
   isNewClone |-> isNewClone]

\* fs.stat(dir): ENOENT is "does not exist", any other error is rethrown
dirExists(d, fault) ==
  IF fault # "none"
  THEN [ok |-> FALSE, exists |-> FALSE, error |-> VerifiedScriptsError(fault)]
  ELSE IF d.kind = "absent"
  THEN [ok |-> TRUE, exists |-> FALSE, error |-> VerifiedScriptsError("none")]
  ELSE [ok |-> TRUE, exists |-> d.kind # "file",
        error |-> VerifiedScriptsError("none")]

\* git.checkIsRepo()
IsRepoAlways(d) == TRUE
checkIsRepo(d) == d.kind = "repo"

\* status.files.length > 0
NeverReset(d) == FALSE
HasLocalChanges(d) == d.dirty

\* git.pull: the files and the change count of the fast-forward
PullResult(old, new) ==
  LET files == ChangedFiles(old, new)
  IN [files |-> files, changes |-> Len(files)]

\* the files that ensureLatest takes from the pull result
PulledNothing(pullResult) == <<>>
PulledFiles(pullResult) ==
  IF pullResult.changes > 0 /\ pullResult.files # <<>>
  THEN pullResult.files ELSE <<>>

\* an ensureLatest call up to its first suspension: the path test and stat
BeginEnsureLatest(d, targetPath, fault) ==
  LET base == [pc |-> "done", path |-> targetPath, pre |-> d.kind,
               sawDirty |-> FALSE, trace |-> <<>>, fault |-> "none",
               before |-> EmptyTree, after |-> EmptyTree, result |-> Pending]
      st == dirExists(d, fault)
  IN IF ~IsAbsolute(targetPath)
     THEN [base EXCEPT !.result = Thrown(VerifiedScriptsError("none"))]
     ELSE IF ~st.ok
     THEN [base EXCEPT !.fault = fault, !.result = Thrown(WrapError(st.error))]
     ELSE [base EXCEPT !.pc = IF st.exists THEN "checkIsRepo" ELSE "clone"]

\* a statement of ensureLatest throws error
Fail(op, error) ==
  [op EXCEPT !.pc = "done", !.fault = error.name,
             !.result = Thrown(WrapError(error))]

InFlight == {i \in 1..Len(ops) : ops[i].pc # "done"}

SyncTrees ==
  {[p \in Tracked |-> IF p = P_a THEN Src(<<FnF, FnG>>)
                      ELSE IF p = P_b THEN Missing ELSE Doc("doc1")],
   [p \in Tracked |-> IF p = P_a THEN Src(<<FnF, FnG>>)
                      ELSE IF p = P_b THEN Src(<<FnH>>) ELSE Doc("doc1")],
   [p \in Tracked |-> IF p = P_a THEN Missing
                      ELSE IF p = P_b THEN Src(<<FnH>>) ELSE Doc("doc2")]}

\* indexVerifiedScripts and any other caller: ensureLatest(clonePath)
CallEnsureLatest ==
  \E targetPath \in TargetPaths, fault \in {"none", "Error"} :
    /\ Len(callers) < MaxCalls
    /\ fault # "none" => IsAbsolute(targetPath)
    /\ ops' = Append(ops, BeginEnsureLatest(dir, targetPath, fault))
    /\ callers' = Append(callers, [via |-> "ensureLatest", op |-> Len(ops) + 1])
    /\ UNCHANGED <<storeVars, readerVars, orchVars, openVars, chunkVars, embedVars, toolVars, filterVars, mainVars, dir,
                   initializationPromise>>

\* if (!initializationPromise): the module keeps a promise from an earlier call
NeverMemoized(promise) == FALSE
Memoized(promise) == promise # 0

\* initialize(clonePath): one ensureLatest call shared by every caller
CallInitialize ==
  \E targetPath \in TargetPaths, fault \in {"none", "Error"} :
    /\ Len(callers) < MaxCalls
    /\ fault # "none" => (IsAbsolute(targetPath) /\ initializationPromise = 0)
    /\ IF ~Memoized(initializationPromise)
       THEN /\ ops' = Append(ops, BeginEnsureLatest(dir, targetPath, fault))
            /\ initializationPromise' = Len(ops) + 1
       ELSE /\ ops' = ops
            /\ initializationPromise' = initializationPromise
    /\ callers' = Append(callers, [via |-> "initialize",
                                   op |-> initializationPromise'])
    /\ UNCHANGED <<storeVars, readerVars, orchVars, openVars, chunkVars, embedVars, toolVars, filterVars, mainVars, dir>>

resetInitialization ==
  /\ initializationPromise # 0
  /\ initializationPromise' = 0
  /\ UNCHANGED <<storeVars, readerVars, orchVars, openVars, chunkVars, embedVars, toolVars, filterVars, mainVars, dir,
                 ops, callers>>

\* somebody edits a file of the working copy while no sync is running
LocalEdit ==
  /\ dir.kind = "repo" /\ ~dir.dirty
  /\ InFlight = {}
  /\ Len(callers) < MaxCalls
  /\ dir' = [dir EXCEPT !.dirty = TRUE]
  /\ UNCHANGED <<storeVars, readerVars, orchVars, openVars, chunkVars, embedVars, toolVars, filterVars, mainVars, ops,
                 initializationPromise, callers>>

SyncFrame ==
  UNCHANGED <<storeVars, readerVars, openVars, chunkVars, embedVars, toolVars, filterVars, mainVars, indexState,
              indexWrites, pc, run, obs, prev, outcome, runs, lastOk,
              initializationPromise, callers>>

CheckIsRepoStep ==
  \E i \in 1..Len(ops), fault \in {"none", "GitError"} :
    /\ ops[i].pc = "checkIsRepo"
    /\ ops' = [ops EXCEPT ![i] =
                 IF fault # "none" THEN Fail(@, [name |-> fault])
                 ELSE IF ~checkIsRepo(dir)
                 THEN [@ EXCEPT !.pc = "done",
                         !.result = Thrown(WrapError(VerifiedScriptsError("none")))]
                 ELSE [@ EXCEPT !.pc = "status"]]
    /\ UNCHANGED <<dir, repoVars>>
    /\ SyncFrame

StatusStep ==
  \E i \in 1..Len(ops), fault \in {"none", "GitError"} :
    /\ ops[i].pc = "status"
    /\ ops' = [ops EXCEPT ![i] =
                 IF fault # "none" THEN Fail(@, [name |-> fault])
                 ELSE [@ EXCEPT !.sawDirty = dir.dirty,
                         !.pc = IF HasLocalChanges(dir) THEN "reset" ELSE "pull"]]
    /\ UNCHANGED <<dir, repoVars>>
    /\ SyncFrame

\* git.reset(["--hard", "HEAD"])
ResetStep ==
  \E i \in 1..Len(ops), fault \in {"none", "GitError"} :
    /\ ops[i].pc = "reset"
    /\ LET ran == [ops[i] EXCEPT !.trace = Append(@, "reset")]
       IN IF fault # "none"
          THEN /\ ops' = [ops EXCEPT ![i] = Fail(ran, [name |-> fault])]
               /\ dir' = dir
          ELSE /\ ops' = [ops EXCEPT ![i] = [ran EXCEPT !.pc = "pull"]]
               /\ dir' = [dir EXCEPT !.dirty = FALSE]
    /\ UNCHANGED repoVars
    /\ SyncFrame

\* git.pull("origin", "main", {"--ff-only": null})
PullStep ==
  \E i \in 1..Len(ops), fault \in {"none", "GitError"},
     tree \in SyncTrees \cup {workTree} :
    /\ ops[i].pc = "pull"
    /\ tree # workTree => headCommit < MaxCommit
    /\ fault # "none" => tree = workTree
    /\ LET ran == [ops[i] EXCEPT !.trace = Append(@, "pull")]
           files == PulledFiles(PullResult(workTree, tree))
       IN ops' = [ops EXCEPT ![i] =
                   IF fault # "none" THEN Fail(ran, [name |-> fault])
                   ELSE [ran EXCEPT !.pc = "done", !.before = workTree,
                           !.after = tree,
                           !.result = Returned(ran.path, files, FALSE)]]
    /\ workTree' = tree
    /\ headCommit' = IF tree # workTree THEN headCommit + 1 ELSE headCommit
    /\ UNCHANGED <<dir, cloneExists>>
    /\ SyncFrame

\* fs.mkdir(parentDir) and git.clone(VERIFIED_SCRIPTS_REPO, targetPath)
CloneStep ==
  \E i \in 1..Len(ops), fault \in {"none", "GitError", "Error"},
     tree \in SyncTrees :
    /\ ops[i].pc = "clone"
    /\ LET ran == [ops[i] EXCEPT !.trace = Append(@, "clone")]
       IN IF fault = "Error"
          THEN /\ ops' = [ops EXCEPT ![i] = Fail(@, [name |-> fault])]
               /\ UNCHANGED <<dir, repoVars>>
          ELSE IF fault = "GitError" \/ dir.kind # "absent"
          THEN /\ ops' = [ops EXCEPT ![i] = Fail(ran, [name |-> "GitError"])]
               /\ UNCHANGED <<dir, repoVars>>
          ELSE /\ ops' = [ops EXCEPT ![i] = [ran EXCEPT !.pc = "list"]]
               /\ dir' = [kind |-> "repo", dirty |-> FALSE]
               /\ workTree' = tree
               /\ headCommit' = IF headCommit = 0 THEN 1 ELSE headCommit
               /\ cloneExists' = TRUE
    /\ SyncFrame

\* listAllFiles(targetPath)
ListStep ==
  \E i \in 1..Len(ops), fault \in {"none", "Error"} :
    /\ ops[i].pc = "list"
    /\ ops' = [ops EXCEPT ![i] =
                 IF fault # "none" THEN Fail(@, [name |-> fault])
                 ELSE [@ EXCEPT !.pc = "done", !.after = workTree,
                         !.result = Returned(ops[i].path, ClonedFiles(workTree), TRUE)]]
    /\ UNCHANGED <<dir, repoVars>>
    /\ SyncFrame

SyncInit ==
  /\ StoreInit /\ OrchInit /\ OpenIdle /\ CallIdle
  /\ dir \in {[kind |-> k, dirty |-> FALSE] : k \in DirKinds \ {"repo"}}
  /\ ops = <<>>
  /\ initializationPromise = 0
  /\ callers = <<>>

SyncNext ==
  \/ CallEnsureLatest
  \/ CallInitialize
  \/ resetInitialization
  \/ LocalEdit
  \/ CheckIsRepoStep
  \/ StatusStep
  \/ ResetStep
  \/ PullStep
  \/ CloneStep
  \/ ListStep

SyncSpec == SyncInit /\ [][SyncNext]_vars

\* ------------------------------------------------- orchestrator: one run
\* ensureLatest, revparse HEAD and the scope decision
BeginRun(fullRescan, tree, head, files, isNewClone) ==
  LET repo == [path |-> RepoPath, files |-> files, isNewClone |-> isNewClone]
  IN /\ workTree' = tree
     /\ headCommit' = head
     /\ cloneExists' = TRUE
     /\ run' = [fullRescan |-> fullRescan, isNewClone |-> isNewClone,
                files |-> files, head |-> head,
                state |-> getIndexState(indexState, RepoPath),
                targetFiles |-> TargetFiles(fullRescan, repo, indexState, head,
                                            DiskFiles(tree)),
                idx |-> 1, savedFunctions |-> 0]
     /\ obs' = [NoObs EXCEPT !.insertsAtStart = inserts,
                             !.everFailed = obs.everFailed]
     /\ prev' = outcome
     /\ outcome' = NoOutcome
     /\ pc' = "files"
     /\ UNCHANGED <<openVars, syncVars, chunkVars, embedVars, toolVars, filterVars, mainVars, storeVars, readerVars, indexState, indexWrites, runs, lastOk>>

\* the target path does not exist: shallow clone
StartRunClone ==
  \E fullRescan \in BOOLEAN, tree \in Trees :
    /\ pc = "idle" /\ runs < MaxRuns
    /\ ~cloneExists
    /\ headCommit < MaxCommit
    /\ BeginRun(fullRescan, tree, headCommit + 1, ClonedFiles(tree), TRUE)

\* the working copy exists and the pull brings nothing
StartRunUpToDate ==
  \E fullRescan \in BOOLEAN :
    /\ pc = "idle" /\ runs < MaxRuns
    /\ cloneExists
    /\ BeginRun(fullRescan, workTree, headCommit, <<>>, FALSE)

\* the working copy exists and the pull fast-forwards to a new commit
StartRunPull ==
  \E fullRescan \in BOOLEAN, tree \in Trees :
    /\ pc = "idle" /\ runs < MaxRuns
    /\ cloneExists
    /\ headCommit < MaxCommit
    /\ BeginRun(fullRescan, tree, headCommit + 1,
                ChangedFiles(workTree, tree), FALSE)

\* ensureLatest throws: the run is aborted before any file is looked at
SyncFails ==
  /\ pc = "idle" /\ runs < MaxRuns
  /\ prev' = outcome
  /\ outcome' = [NoOutcome EXCEPT !.kind = "thrown"]
  /\ runs' = runs + 1
  /\ UNCHANGED <<openVars, syncVars, chunkVars, embedVars, toolVars, filterVars, mainVars, storeVars, readerVars, indexState, indexWrites, repoVars,
                 pc, run, obs, lastOk>>

\* catch (error): the error is logged and the store stays as the try block
\* left it
RestoreOnCatch(before, r) == IF r.failed THEN before ELSE r.db
AfterCatch(before, r) == r.db

AbortOnFailure(r) == IF r.failed THEN "aborted" ELSE "files"
ContinueOnFailure(r) == "files"

\* one iteration of the loop over targetFiles
ProcessFile ==
  \E fault \in Faults :
    /\ pc = "files"
    /\ run.idx <= Len(run.targetFiles)
    /\ FaultApplies(Db, workTree, run.targetFiles[run.idx], fault)
    /\ LET filePath == run.targetFiles[run.idx]
           rel == SubSeq(filePath, Len(RepoPath) + 1, Len(filePath))
           r == IndexFile(Db, workTree, filePath, fault)
       IN /\ functions' = AfterCatch(Db, r).functions
          /\ functionEmbeddings' = AfterCatch(Db, r).functionEmbeddings
          /\ inserts' = AfterCatch(Db, r).inserts
          /\ run' = [run EXCEPT !.idx = @ + 1,
                                !.savedFunctions = @ + r.saved]
          /\ obs' = [extractCalls |-> obs.extractCalls + r.extractCalls,
                     embedCalls |-> obs.embedCalls + r.embedCalls,
                     attempted |-> Append(obs.attempted, filePath),
                     failed |-> IF r.failed THEN obs.failed \cup {run.idx}
                                ELSE obs.failed,
                     insertsAtStart |-> obs.insertsAtStart,
                     everFailed |-> obs.everFailed \/ r.failed]
          /\ lastOk' = IF rel \in DOMAIN lastOk
                       THEN [lastOk EXCEPT ![rel] =
                               IF r.failed THEN Missing
                               ELSE DiskContent(workTree, rel)]
                       ELSE lastOk
          /\ pc' = ContinueOnFailure(r)
    /\ UNCHANGED <<openVars, syncVars, chunkVars, embedVars, toolVars, filterVars, mainVars, storeOps, lastOp, readerVars, indexState, indexWrites,
                   repoVars, prev, outcome, runs>>

\* after the loop: update the index state and return the summary
Finalize ==
  /\ pc = "files"
  /\ run.idx > Len(run.targetFiles)
  /\ LET w == setIndexState(indexState, RepoPath, run.head)
         written == ShouldUpdateState(run.savedFunctions) /\ w.ok
     IN /\ indexState' = IF written THEN w.rows ELSE indexState
        /\ indexWrites' = IF written THEN indexWrites + 1 ELSE indexWrites
  /\ outcome' = [kind |-> "summary", processedFiles |-> run.targetFiles,
                 savedFunctions |-> run.savedFunctions, head |-> run.head]
  /\ pc' = "idle"
  /\ runs' = runs + 1
  /\ UNCHANGED <<openVars, syncVars, chunkVars, embedVars, toolVars, filterVars, mainVars, storeVars, readerVars, repoVars, run, obs, prev, lastOk>>

Next ==
  \/ StartRunClone
  \/ StartRunUpToDate
  \/ StartRunPull
  \/ SyncFails
  \/ ProcessFile
  \/ Finalize

Spec == Init /\ [][Next]_vars

\* ------------------------- the orchestrator across restarts of the server
\* the process holds a store of the dimension its repository code validates
Serving ==
  /\ conn.kind = "open"
  /\ conn.dim = EMBEDDING_DIMENSION /\ dbFile.dim = EMBEDDING_DIMENSION

\* indexVerifiedScripts of the running process; upstream is one of SyncTrees
ServerRun ==
  /\ Serving
  /\ \/ StartRunClone
     \/ StartRunUpToDate
     \/ StartRunPull
     \/ SyncFails
     \/ ProcessFile
     \/ Finalize
  /\ workTree' \in SyncTrees \cup {workTree}

\* the process ends between two runs
ServerStops ==
  /\ pc = "idle"
  /\ Shutdown

\* the next process, of this or of another build, opens the store file
ServerStarts ==
  /\ pc = "idle"
  /\ InitializeDatabaseCall

RebuildNext ==
  \/ ServerRun
  \/ ServerStops
  \/ ServerStarts

RebuildSpec == Init /\ [][RebuildNext]_vars

\* ================================================================ claims
Range(s) == {s[i] : i \in 1..Len(s)}

Abs(rel) == PathJoin(RepoPath, rel)

RowsOf(rows, absPath) == {f \in rows : f.filePath = absPath}

\* the eligible files of the working copy (a.js and nested/b.cjs when present)
ExpectedEligible == {Abs(rel) : rel \in {q \in {P_a, P_b} : workTree[q].kind # "missing"}}

IncrementalRun == pc = "files" /\ ~run.fullRescan /\ ~run.isNewClone

\* C1: a failure while one target file is processed does not abort the run:
\* every target file is attempted, the run returns a summary whose
\* processedFiles is the whole target list, and savedFunctions equals the
\* number of function rows the store committed during the run.
C1_FailureIsolated ==
  /\ pc \in {"idle", "files"}
  /\ pc = "files" => obs.attempted = SubSeq(run.targetFiles, 1, run.idx - 1)
  /\ outcome.kind = "summary" =>
       /\ outcome.processedFiles = run.targetFiles
       /\ obs.attempted = run.targetFiles
       /\ outcome.savedFunctions = inserts - obs.insertsAtStart

C1_Witness ==
  /\ outcome.kind = "summary"
  /\ outcome.savedFunctions > 0
  /\ \E i \in obs.failed :
       \E j \in (i + 1)..Len(run.targetFiles) : j \notin obs.failed

\* C2: a saveFunction call that fails (validation, function insert or any
\* chunk insert) leaves the function rows and the chunk rows as they were.
C2_SaveAllOrNothing ==
  [][(lastOp'.op = "save" /\ ~lastOp'.ok)
       => (functions' = functions /\ functionEmbeddings' = functionEmbeddings)]_vars

C2_Witness ==
  /\ lastOp.op = "save"
  /\ lastOp.reason = "chunk"
  /\ functions # {}

\* C3: after any sequence of saveFunction and deleteFunction calls every chunk
\* row refers to an existing function row and every function row has a chunk.
C3_NoOrphanNoEmpty ==
  /\ \A c \in functionEmbeddings : \E f \in functions : f.id = c.functionId
  /\ \A f \in functions : \E c \in functionEmbeddings : c.functionId = f.id

C3_Witness ==
  /\ lastOp.op = "delete" /\ lastOp.ok /\ lastOp.arg > 0
  /\ \A f \in functions : f.id # lastOp.arg
  /\ \E f \in functions : f.id > lastOp.arg

\* C4: no read (getFunctionById, getFunctionsByFilePath) running next to
\* saveFunction or deleteFunction returns a function with an empty chunk list.
C4_ReaderSeesWholeFunction ==
  rdResult.kind = "functions" =>
    \A f \in rdResult.rows : f.embeddings # <<>>

\* C5: no two stored rows are the same declaration of the same file, a file
\* whose last indexing succeeded has exactly one row per declaration, and an
\* indexing step of a file leaves for its path only the rows it inserted
\* (or, when the cleaning failed, inserts nothing).
C5_StateOk ==
  /\ \A f, g \in functions :
       (f.name = g.name /\ f.code = g.code /\ f.filePath = g.filePath)
         => f.id = g.id
  /\ \A rel \in DOMAIN lastOk :
       lastOk[rel].kind = "source" =>
         LET fns == lastOk[rel].fns
             rows == RowsOf(functions, Abs(rel))
         IN /\ Cardinality(rows) = Len(fns)
            /\ \A i \in 1..Len(fns) :
                 \E r \in rows : r.name = fns[i].name /\ r.code = fns[i].code

C5_StepOk ==
  (pc = "files" /\ pc' = "files" /\ run'.idx = run.idx + 1) =>
    LET filePath == run.targetFiles[run.idx]
        before == RowsOf(functions, filePath)
        after == RowsOf(functions', filePath)
        delta == run'.savedFunctions - run.savedFunctions
    IN \/ Cardinality(after) = delta
       \/ delta = 0 /\ after \subseteq before

C5_OneRowPerDeclaration == []C5_StateOk /\ [][C5_StepOk]_vars

C5_Witness ==
  /\ runs = 1 /\ pc = "files" /\ run.idx = 2
  /\ run.targetFiles = <<Abs(P_a)>>
  /\ prev.processedFiles = <<Abs(P_a)>>
  /\ obs.failed = {}
  /\ obs.insertsAtStart = 2
  /\ inserts = 4
  /\ Cardinality(functions) = 2

NoUpstreamChangeRun ==
  /\ pc = "files" \/ outcome.kind = "summary"
  /\ prev.kind = "summary"
  /\ prev.head = run.head
  /\ ~run.fullRescan /\ ~run.isNewClone /\ run.files = <<>>

C9_OnlyChangedFilesScanned ==
  (IncrementalRun /\ run.files # <<>>) =>
    Range(run.targetFiles) = {Abs(rel) : rel \in Range(run.files) \cap {P_a, P_b}}

\* C10: with a full rescan requested or a fresh clone, the scope is every
\* eligible file under the working copy, nothing under .git, whatever the
\* changed-file list and the index state are.
C10_FullScanScope ==
  (pc = "files" /\ (run.fullRescan \/ run.isNewClone)) =>
    /\ Range(run.targetFiles) = ExpectedEligible
    /\ Len(run.targetFiles) = Cardinality(ExpectedEligible)

C10_Witness ==
  /\ pc = "files" /\ run.fullRescan /\ ~run.isNewClone
  /\ run.files = <<P_readme>>
  /\ \E r \in indexState : r.lastIndexedCommit # headCommit
  /\ Len(run.targetFiles) = 2

\* an initializeDatabase call on an existing store file whose vector column
\* has another dimension than the embedding model of the build
MismatchCall ==
  /\ conn'.opens = conn.opens + 1
  /\ dbFile.exists /\ dbFile.dim # 0 /\ dbFile.dim # conn'.dim

FreshRebuild ==
  /\ conn'.kind = "open"
  /\ conn'.isNewDatabase /\ conn'.dimensionMismatchRebuild
  /\ functions' = {} /\ functionEmbeddings' = {}
  /\ dbFile' = [exists |-> TRUE, dim |-> conn'.dim]

C11_StepOk ==
  MismatchCall =>
    /\ conn'.env = "ok" => FreshRebuild
    /\ conn'.env # "schemaUnreadable" =>
         (conn'.kind = "thrown" <=> conn'.env # "ok")
    /\ conn'.dimensionMismatchRebuild => FreshRebuild

C11_StateOk ==
  (conn.kind = "open" /\ conn.dimensionMismatchRebuild
     /\ conn.dim # EMBEDDING_DIMENSION) =>
    /\ functions = {} /\ functionEmbeddings = {}
    /\ rdResult.kind = "functions" => rdResult.rows = {}

AwaitedOp(c) == ops[callers[c].op]

NoDuplicates(q) == \A i, j \in 1..Len(q) : q[i] = q[j] => i = j

\* C12: at most one sync operation (ensureLatest call) is in flight at any
\* time, and two callers that are waiting at the same time wait for the same
\* operation.
C12_SingleSyncOutstanding ==
  /\ Cardinality(InFlight) <= 1
  /\ \A c, d \in 1..Len(callers) :
       (AwaitedOp(c).pc # "done" /\ AwaitedOp(d).pc # "done")
         => callers[c].op = callers[d].op

\* C13: an ensureLatest call that returns has isNewClone = TRUE exactly when
\* the target path did not exist when it was called; then files is every file
\* of the new working copy, relative and without .git; otherwise files is the
\* files the pull changed, empty when it changed nothing.
C13_ResultShape ==
  \A i \in 1..Len(ops) :
    LET o == ops[i]
        r == o.result
    IN r.kind = "returned" =>
         /\ r.path = o.path
         /\ r.isNewClone = (o.pre = "absent")
         /\ NoDuplicates(r.files)
         /\ P_git \notin Range(r.files)
         /\ IF r.isNewClone
            THEN Range(r.files) =
                   {rel \in Tracked : o.after[rel].kind # "missing"}
            ELSE Range(r.files) =
                   {rel \in Tracked : o.before[rel] # o.after[rel]}

C13_Witness ==
  /\ \E i \in 1..Len(ops) :
       /\ ops[i].result.kind = "returned" /\ ops[i].result.isNewClone
       /\ Len(ops[i].result.files) = 2
  /\ \E i \in 1..Len(ops) :
       /\ ops[i].result.kind = "returned" /\ ~ops[i].result.isNewClone
       /\ Len(ops[i].result.files) = 3

\* C14: a pull is only issued on a working copy without local modifications:
\* a call that found modifications ran reset --hard and then the pull, a call
\* that found none never ran a reset.
C14_ResetBeforePull ==
  \A i \in 1..Len(ops) :
    LET o == ops[i]
    IN /\ o.pc = "pull" => ~dir.dirty
       /\ o.pc = "reset" => o.sawDirty
       /\ "pull" \in Range(o.trace) =>
            o.trace = IF o.sawDirty THEN <<"reset", "pull">> ELSE <<"pull">>
       /\ ~o.sawDirty => "reset" \notin Range(o.trace)

C14_Witness ==
  \E i \in 1..Len(ops) :
    /\ ops[i].result.kind = "returned"
    /\ ops[i].sawDirty
    /\ ops[i].trace = <<"reset", "pull">>

\* C15: a call on a target path that is a directory but no git working copy
\* ends with a VerifiedScriptsError and runs no reset, no pull and no clone;
\* the directory stays as it was.
C15_ForeignDirRejected ==
  \A i \in 1..Len(ops) :
    LET o == ops[i]
    IN o.pre = "foreign" =>
         /\ o.trace = <<>>
         /\ dir.kind = "foreign"
         /\ o.pc \in {"checkIsRepo", "done"}
         /\ o.pc = "done" =>
              (o.result.kind = "thrown"
                 /\ o.result.error.name = "VerifiedScriptsError")

C15_Witness ==
  \E i \in 1..Len(ops) :
    /\ ops[i].pre = "foreign" /\ IsAbsolute(ops[i].path)
    /\ ops[i].result.kind = "thrown"
    /\ ops[i].result.error.cause = "none"

\* C16: a call that met a failure (relative path, failing stat, git command,
\* mkdir or directory listing, a target that is no working copy) ends with a
\* VerifiedScriptsError whose cause is the underlying error when there is
\* one; a call returns a result only when it met no failure.
C16_FailuresSurface ==
  \A i \in 1..Len(ops) :
    LET o == ops[i]
        r == o.result
    IN /\ o.pc = "done" <=> r.kind # "pending"
       /\ r.kind = "thrown" =>
            (r.error.name = "VerifiedScriptsError" /\ r.error.cause = o.fault)
       /\ r.kind = "returned" =>
            (o.fault = "none" /\ IsAbsolute(o.path) /\ o.pre \in {"absent", "repo"})
       /\ (o.fault # "none" \/ ~IsAbsolute(o.path)) => r.kind = "thrown"
       /\ (o.pre \in {"file", "foreign"} /\ o.pc = "done") => r.kind = "thrown"

C16_Witness ==
  \E i \in 1..Len(ops) :
    /\ ops[i].result.kind = "thrown"
    /\ ops[i].result.error.cause = "GitError"
    /\ ops[i].trace = <<"pull">>

\* the kind of the token at position pos (0-based) of a text: whether it is
\* whitespace and which token of its character it is (0: a whole character)
RECURSIVE TokenAt(_, _)
TokenAt(text, pos) ==
  LET r == Head(text)
  IN IF pos < r.n
     THEN [ws |-> r.ws,
           part |-> IF r.half = 0 THEN 0 ELSE ((r.half - 1 + pos) % 2) + 1]
     ELSE TokenAt(Tail(text), pos - r.n)

RECURSIVE Concat(_)
Concat(texts) ==
  IF texts = <<>> THEN <<>> ELSE Head(texts) \o Concat(Tail(texts))

\* neighbouring runs of the same kind written as one run
RECURSIVE Normalize(_)
Normalize(text) ==
  IF Len(text) < 2 THEN text
  ELSE LET r == text[1]
           q == text[2]
       IN IF r.ws = q.ws /\ r.half = q.half /\ (r.half = 0 \/ r.n % 2 = 0)
          THEN Normalize(<<[r EXCEPT !.n = r.n + q.n]>>
                         \o SubSeq(text, 3, Len(text)))
          ELSE <<r>> \o Normalize(Tail(text))

Pow2s == {1, 2, 4, 8, 16, 32, 64, 128, 256, 512, 1024, 2048, 4096, 8192, 16384}

\* the smallest power of two k with ceil(n / k) <= m
SmallestK(n, m) ==
  CHOOSE k \in Pow2s :
    /\ (n + k - 1) \div k <= m
    /\ \A j \in Pow2s : j < k => (n + j - 1) \div j > m

\* the slicing that the chunker uses for the text and the bound of the state
ChN == TokenCount(chText)
ChK == SmallestK(ChN, chBound)
ChSize == (ChN + ChK - 1) \div ChK
ChSlices == IF ChN = 0 THEN 0 ELSE (ChN + ChSize - 1) \div ChSize
SliceEnd(j) == IF j * ChSize < ChN THEN j * ChSize ELSE ChN
BlankSlice(j) ==
  \A pos \in ((j - 1) * ChSize)..(SliceEnd(j) - 1) : TokenAt(chText, pos).ws

\* C17: every chunk that splitByTokens returns is the decoding of a slice of
\* at most maxTokensPerChunk consecutive tokens of the token stream of the
\* text.
C17_ChunkWithinBound ==
  chPc = "returned" => \A i \in 1..Len(chChunks) :
    LET len == TokenCount(chChunks[i])
    IN /\ len <= chBound
       /\ \E lo \in 0..(ChN - 1) :
            /\ lo + len <= ChN
            /\ chChunks[i] = Decode(SliceTokens(chText, lo, lo + len))

C17_Witness ==
  /\ chPc = "returned"
  /\ chBound = 2
  /\ ChN = 5
  /\ Len(chChunks) = 3
  /\ TokenCount(chChunks[1]) = 2 /\ TokenCount(chChunks[3]) = 1

\* C18 as stated: a text of more tokens than the bound comes back as exactly
\* k chunks, k the smallest power of two with ceil(n / k) <= bound, each of
\* ceil(n / k) tokens but for a possibly shorter last one.
C18_Original ==
  (chPc = "returned" /\ ChN > chBound) =>
    /\ Len(chChunks) = ChK
    /\ \A i \in 1..(Len(chChunks) - 1) : TokenCount(chChunks[i]) = ChSize
    /\ TokenCount(chChunks[Len(chChunks)]) <= ChSize

\* C18: a text of more tokens than the bound is cut into ceil(n / c) slices
\* of c = ceil(n / k) consecutive tokens (the last possibly shorter), k the
\* smallest power of two with c <= bound; there are at most k slices and
\* exactly 2 when k = 2; the chunks are the slices that are not
\* whitespace-only, in order.
C18_PowerOfTwoSlices ==
  (chPc = "returned" /\ ChN > chBound) =>
    LET kept == {j \in 1..ChSlices : ~BlankSlice(j)}
        Rank(j) == Cardinality({q \in kept : q <= j})
    IN /\ ChSlices <= ChK
       /\ ChK = 2 => ChSlices = 2
       /\ ChSize <= chBound
       /\ Len(chChunks) = Cardinality(kept)
       /\ \A j \in kept :
            /\ TokenCount(chChunks[Rank(j)]) = SliceEnd(j) - (j - 1) * ChSize
            /\ \A q \in 1..(ChSlices - 1) : q \in kept =>
                 TokenCount(chChunks[Rank(q)]) = ChSize

C18_Witness ==
  /\ chPc = "returned"
  /\ chText = BigCode
  /\ chBound = MAX_TOKENS_PER_CHUNK
  /\ chChunks = <<<<Tok(FALSE, 4500)>>, <<Tok(FALSE, 4500)>>>>

\* C19: the chunks that splitByTokens returns, concatenated in order, are
\* the text with nothing lost or reordered, and a text within the bound comes
\* back as one chunk equal to the text.
C19_ConcatenationRestoresText ==
  chPc = "returned" =>
    /\ Normalize(Concat(chChunks)) = chText
    /\ ChN <= chBound => chChunks = <<chText>>

\* a deleteFunction call has just completed without error for this id
DeletedId == IF lastOp.op = "delete" /\ lastOp.ok THEN lastOp.arg ELSE 0

\* C20: once deleteFunction(id) has completed, no function row and no chunk
\* row of that id remains and every other row is as it was; a read that starts
\* then (getFunctionById, getFunctionsByFilePath) does not find the id; a
\* deleteFunction call that fails leaves both tables as they were.
C20_StateOk ==
  DeletedId > 0 =>
    /\ \A f \in functions : f.id # DeletedId
    /\ \A c \in functionEmbeddings : c.functionId # DeletedId

C20_StepOk ==
  /\ (storeOps' = storeOps + 1 /\ lastOp'.op = "delete") =>
       IF lastOp'.ok
       THEN /\ functions' = {f \in functions : f.id # lastOp'.arg}
            /\ functionEmbeddings' =
                 {c \in functionEmbeddings : c.functionId # lastOp'.arg}
       ELSE functions' = functions /\ functionEmbeddings' = functionEmbeddings
  /\ (DeletedId > 0 /\ rd.pc = "idle" /\ storeOps' = storeOps) =>
       /\ rd'.pc \in {"byIdChunks", "byPathChunks"} =>
            \A f \in rd'.rows : f.id # DeletedId
       /\ rd'.pc = "searchJoin" =>
            \A i \in 1..Len(rd'.raw) : rd'.raw[i].functionId # DeletedId
       /\ (rd'.pc = "idle" /\ rdResult'.kind = "functions") =>
            rdResult'.rows = {}

C20_DeleteRemovesBoth == []C20_StateOk /\ [][C20_StepOk]_vars

C20_Witness ==
  /\ DeletedId = 1
  /\ inserts = 2
  /\ storeOps = 3
  /\ {f.id : f \in functions} = {2}
  /\ rd.pc = "idle"
  /\ rdResult.kind = "functions"
  /\ {f.id : f \in rdResult.rows} = {2}
  /\ \A f \in rdResult.rows : f.embeddings # <<>>

\* C21: getFunctionById and deleteFunction reject a non-positive id with a
\* validation error before the store is read or written; for a positive id
\* that no row has, getFunctionById returns null and deleteFunction leaves
\* both tables as they were and raises no validation error; the validation
\* error is given for non-positive ids only.
C21_StateOk ==
  /\ (rdResult.kind = "error" /\ rdResult.call = "getFunctionById")
       => rdResult.arg <= 0
  /\ rdResult.kind = "null" => rdResult.arg > 0
  /\ lastOp.op = "delete" =>
       /\ lastOp.reason = "validation" <=> lastOp.arg <= 0
       /\ lastOp.arg <= 0 => ~lastOp.ok

C21_StepOk ==
  /\ (storeOps' = storeOps + 1 /\ lastOp'.op = "delete") =>
       /\ lastOp'.arg <= 0 =>
            functions' = functions /\ functionEmbeddings' = functionEmbeddings
       /\ (lastOp'.arg > 0 /\ \A f \in functions : f.id # lastOp'.arg) =>
            /\ functions' = functions
            /\ functionEmbeddings' = functionEmbeddings
            /\ lastOp'.reason \in {"ok", "transaction"}
            /\ lastOp'.reason = "ok" <=> lastOp'.ok
  /\ (rd.pc = "idle" /\ rdResult' # rdResult /\ rdResult'.kind = "null") =>
       \A f \in functions : f.id # rdResult'.arg
  /\ (rd.pc = "idle" /\ rd'.pc = "byIdChunks") =>
       \A f \in rd'.rows : f.id > 0

Fetched(id, input) ==
  [id |-> id, name |-> input.name, code |-> input.code,
   filePath |-> input.filePath,
   embeddings |-> [i \in 1..Len(input.embeddings) |->
                     ToFloat32(input.embeddings[i])]]

SavedRow(id, input) ==
  [id |-> id, name |-> input.name, code |-> input.code,
   filePath |-> input.filePath]

\* a saveFunction call has just returned this id
SavedId == IF lastOp.op = "save" /\ lastOp.ok THEN lastOp.arg ELSE 0

\* C22: after saveFunction(input) has returned id, the store holds the row of
\* the input under that id with k chunk rows numbered 0..k-1, and
\* getFunctionById(id) returns the name, the code and the filePath of the
\* input with exactly k vectors, the i-th being the i-th vector of the input
\* (in single precision).
C22_StateOk ==
  SavedId > 0 =>
    LET k == Len(lastOp.input.embeddings)
        mine == {c \in functionEmbeddings : c.functionId = SavedId}
    IN /\ SavedRow(SavedId, lastOp.input) \in functions
       /\ Cardinality({f \in functions : f.id = SavedId}) = 1
       /\ {c.chunkIndex : c \in mine} = 0..(k - 1)
       /\ Cardinality(mine) = k

C22_StepOk ==
  /\ (SavedId > 0 /\ rd.pc = "idle" /\ rd'.pc = "byIdChunks"
        /\ \E f \in rd'.rows : f.id = SavedId)
       => rd'.rows = {SavedRow(SavedId, lastOp.input)}
  /\ (SavedId > 0 /\ rd.pc = "byIdChunks" /\ rd'.pc = "idle"
        /\ rd.rows = {SavedRow(SavedId, lastOp.input)})
       => rdResult' = [kind |-> "functions",
                       rows |-> {Fetched(SavedId, lastOp.input)}]

C22_SaveThenFetch == []C22_StateOk /\ [][C22_StepOk]_vars

C22_Witness ==
  /\ SavedId = 2
  /\ rd.pc = "idle"
  /\ lastOp.input.name = "g"
  /\ Len(lastOp.input.embeddings) = 2
  /\ rdResult.kind = "functions"
  /\ rdResult.rows = {Fetched(2, lastOp.input)}

\* the number of entries of a result list for a function at a distance, and
\* the number of stored chunks of a function at a distance from a query
ReturnedAt(rows, id, d) ==
  Cardinality({i \in 1..Len(rows) :
                 rows[i].functionWithChunks.id = id /\ rows[i].distance = d})

StoredAt(chunkRows, embedding, id, d) ==
  Cardinality({c \in chunkRows :
                 c.functionId = id /\ Dist(c.vector, embedding) = d})

\* C23: searchSimilar(v, topK) returns at most topK results; when no store
\* call runs during the search, every result is a stored chunk joined to its
\* function, there are min(topK, number of chunks) of them, and every stored
\* chunk strictly closer to v than some result is itself in the result.
C23_StateOk ==
  rdResult.kind = "results" => Len(rdResult.rows) <= rdResult.topK

C23_StepOk ==
  (rd.pc = "searchJoin" /\ rd'.pc = "idle" /\ rdResult'.quiet) =>
    LET rows == rdResult'.rows
        v == rdResult'.embedding
        n == Cardinality(functionEmbeddings)
        ids == {c.functionId : c \in functionEmbeddings}
        ds == {Dist(c.vector, v) : c \in functionEmbeddings}
    IN /\ Len(rows) = (IF n < rdResult'.topK THEN n ELSE rdResult'.topK)
       /\ \A i \in 1..Len(rows) :
            /\ rows[i].functionWithChunks.id \in ids
            /\ rows[i].distance \in ds
            /\ rows[i].functionWithChunks.embeddings # <<>>
       /\ \A id \in ids, d \in ds :
            /\ ReturnedAt(rows, id, d) <= StoredAt(functionEmbeddings, v, id, d)
            /\ (\E i \in 1..Len(rows) : d < rows[i].distance) =>
                 ReturnedAt(rows, id, d) = StoredAt(functionEmbeddings, v, id, d)

C23_TopKNearest == []C23_StateOk /\ [][C23_StepOk]_vars

C23_Witness ==
  /\ rdResult.kind = "results"
  /\ rdResult.quiet
  /\ rdResult.topK = 1
  /\ Len(rdResult.rows) = 1
  /\ rdResult.rows[1].distance = 1
  /\ storeOps = 1
  /\ \E c \in functionEmbeddings : Dist(c.vector, rdResult.embedding) = 2

\* C24 as stated: the distances of the results of searchSimilar do not
\* increase along the result list.
C24_Original ==
  rdResult.kind = "results" =>
    \A i, j \in 1..Len(rdResult.rows) :
      i < j => rdResult.rows[i].distance >= rdResult.rows[j].distance

\* C24: the results of searchSimilar come nearest first: the distances do not
\* decrease along the result list.
C24_NearestFirst ==
  rdResult.kind = "results" =>
    \A i, j \in 1..Len(rdResult.rows) :
      i < j => rdResult.rows[i].distance <= rdResult.rows[j].distance

C24_Witness ==
  /\ rdResult.kind = "results"
  /\ Len(rdResult.rows) = 2
  /\ rdResult.rows[1].distance = 1
  /\ rdResult.rows[2].distance = 2
  /\ rdResult.rows[1].functionWithChunks.id = rdResult.rows[2].functionWithChunks.id

\* C25: embedManyTexts fails and returns no vector whenever the backend
\* returns a number of vectors other than the number of inputs or a vector
\* whose length is not the expected dimension, and embedText fails on a
\* vector of another length; a call that succeeds returns one vector of the
\* expected dimension per input, in the order of the inputs.
C25_MismatchIsError ==
  emPc = "returned" =>
    LET n == IF emOut.call = "embedText" THEN 1 ELSE Len(emTexts)
        mismatch ==
          \/ emBackend \in {"short", "long"}
          \/ emBackend \in {"baddim", "onebad"} /\ n > 0
    IN /\ (emOut.calls = 1 /\ mismatch) => ~emOut.ok
       /\ ~emOut.ok => emOut.results = <<>>
       /\ emOut.ok =>
            /\ emBackend = "ok"
            /\ Len(emOut.results) = n
            /\ emOut.call = "embedManyTexts" =>
                 \A i \in 1..n :
                   /\ emOut.results[i].text = emTexts[i]
                   /\ emOut.results[i].embedding.dim = EMBEDDING_DIM
            /\ emOut.call = "embedText" =>
                 emOut.results[1].dim = EMBEDDING_DIM

C25_Witness ==
  /\ emPc = "returned"
  /\ emOut.call = "embedManyTexts"
  /\ emBackend = "onebad"
  /\ Len(emTexts) = 2
  /\ emOut.calls = 1
  /\ ~emOut.ok

\* C26: embedText with an empty or whitespace-only text, and embedManyTexts
\* with an empty batch or a batch that has an empty or whitespace-only
\* element, fail without any call of the backend.
C26_InvalidInputNoBackendCall ==
  emPc = "returned" =>
    LET invalid ==
          emTexts = <<>> \/ \E i \in 1..Len(emTexts) : IsBlankText(emTexts[i])
    IN /\ invalid => (~emOut.ok /\ emOut.calls = 0)
       /\ ~invalid => emOut.calls = 1

C26_Witness ==
  /\ emPc = "returned"
  /\ emOut.call = "embedManyTexts"
  /\ emTexts = <<<<Tok(FALSE, 1)>>, <<Tok(TRUE, 1)>>>>
  /\ emBackend = "ok"
  /\ emOut.calls = 0

\* C27: the files that the scans keep have an extension of the eligible set,
\* and no documentation, configuration or type-only declaration file is
\* among them.
C27_OnlySourceFilesScanned ==
  flPc = "returned" =>
    \A i \in 1..Len(flOut) :
      LET rel == SubSeq(flOut[i], Len(RepoPath) + 1, Len(flOut[i]))
      IN /\ ExtName(flOut[i]) \in JS_EXTENSIONS
         /\ FileKind(rel) \notin {"documentation", "configuration",
                                  "declaration"}

\* C28: transformExamplesHandler always returns a result value: an empty or
\* whitespace-only text, a missing database handle and a missing embedding
\* provider give an error result with no embedText and no searchSimilar call;
\* a failing embedText gives an error result with no searchSimilar call; a
\* failing searchSimilar gives an error result; otherwise the result lists
\* the name and the code of the matches.
C28_HandlerNeverThrows ==
  toolOut.kind # "none" =>
    LET checksFail ==
          IsBlankText(toolOut.text) \/ ~toolOut.dbInstance \/ ~toolOut.provider
        isError == "error" \in DOMAIN toolOut.payload
    IN /\ toolOut.kind = "returned"
       /\ checksFail =>
            (isError /\ toolOut.embedTextCalls = 0 /\ toolOut.searchCalls = 0)
       /\ (~checksFail /\ toolOut.backend # "ok") =>
            (isError /\ toolOut.embedTextCalls = 1 /\ toolOut.searchCalls = 0)
       /\ (~checksFail /\ toolOut.backend = "ok" /\ toolOut.searchFails) =>
            (isError /\ toolOut.searchCalls = 1)
       /\ (~checksFail /\ toolOut.backend = "ok" /\ ~toolOut.searchFails) =>
            /\ ~isError
            /\ toolOut.payload.count = Len(toolOut.payload.matches)

C28_Witness ==
  /\ toolOut.kind = "returned"
  /\ ~IsBlankText(toolOut.text)
  /\ toolOut.dbInstance /\ toolOut.provider
  /\ toolOut.backend = "ok"
  /\ toolOut.searchFails
  /\ toolOut.payload.error = "Failed to transform examples"
  /\ functions # {}

\* the store holds this function of this file with at least one chunk
Reflected(rel, fn) ==
  \E f \in functions :
    /\ f.name = fn.name /\ f.code = fn.code /\ f.filePath = Abs(rel)
    /\ \E c \in functionEmbeddings : c.functionId = f.id

\* C29: between runs, when the index state of the repository path names the
\* head commit, every function of every eligible file of the working copy
\* has a function row with its chunks in the store.
C29_WatermarkMeansReflected ==
  (pc = "idle" /\ headCommit > 0
    /\ \E r \in indexState :
         r.repoPath = RepoPath /\ r.lastIndexedCommit = headCommit)
    => \A rel \in {P_a, P_b} :
         workTree[rel].kind = "source" =>
           \A i \in 1..Len(workTree[rel].fns) :
             Reflected(rel, workTree[rel].fns[i])

\* C30: a run attempts each of its target files once, and a file whose
\* processing failed in a run is again in the scope of the next run when that
\* run finds no new commit, no changed file and is not a full rescan.
C30_StateOk ==
  /\ Len(obs.attempted) <= Len(run.targetFiles)
  /\ \A i, j \in 1..Len(obs.attempted) :
       obs.attempted[i] = obs.attempted[j] => i = j
  /\ obs.extractCalls <= Len(obs.attempted)

C30_StepOk ==
  (pc = "idle" /\ pc' = "files" /\ outcome.kind = "summary"
    /\ run'.head = run.head /\ ~run'.fullRescan /\ ~run'.isNewClone
    /\ run'.files = <<>>)
    => \A i \in obs.failed : run.targetFiles[i] \in Range(run'.targetFiles)

C30_FailedFileStaysInScope == []C30_StateOk /\ [][C30_StepOk]_vars

\* the declarations the store holds, and those of the eligible files of the
\* working copy
StoredDecls ==
  {[name |-> f.name, code |-> f.code, filePath |-> f.filePath] : f \in functions}

WorkingCopyDecls ==
  UNION {Range(extractFunctions(workTree, Abs(rel)).fns) : rel \in {P_a, P_b}}

\* C31: after runs in none of which a file failed, the stored functions are
\* exactly the functions of the eligible files of the working copy at the head
\* commit; no function is left for a file that is gone.
C31_IndexFollowsUpstream ==
  (pc = "idle" /\ ~obs.everFailed) => StoredDecls = WorkingCopyDecls

\* the fewest pieces of at most chBound tokens that cover the text
ChFewest == (ChN + chBound - 1) \div chBound

\* C32 as stated: splitByTokens returns ceil(tokenCount / bound) chunks.
C32_Original ==
  chPc = "returned" => Len(chChunks) = ChFewest

\* C32: splitByTokens returns one chunk for each slice that is not
\* whitespace-only; the number of slices is ceil(n / ceil(n / k)) for the
\* smallest power of two k that makes the slices fit, which is at least the
\* fewest possible number of pieces and less than twice that number, and
\* equal to it when that number is a power of two.
C32_ChunkCount ==
  chPc = "returned" =>
    /\ Len(chChunks) = Cardinality({j \in 1..ChSlices : ~BlankSlice(j)})
    /\ ChFewest <= ChSlices
    /\ ChN > 0 => ChSlices < 2 * ChFewest
    /\ ChFewest \in Pow2s => ChSlices = ChFewest

C32_Witness ==
  /\ chPc = "returned"
  /\ chBound = 3
  /\ ChN = 7
  /\ ChFewest = 3
  /\ Len(chChunks) = 4

\* the chunk rows of a function
ChunksOf(id) == {c \in functionEmbeddings : c.functionId = id}

\* C33: the chunk rows of every stored function carry the indices 0..n-1,
\* each once, and vectors of one length, the embedding dimension of the
\* store; a save that succeeds stores one chunk row per embedding it was given.
C33_StateOk ==
  \A f \in functions :
    LET n == Cardinality(ChunksOf(f.id))
    IN /\ {c.chunkIndex : c \in ChunksOf(f.id)} = 0..(n - 1)
       /\ \A c, d \in ChunksOf(f.id) : c.chunkIndex = d.chunkIndex => c = d
       /\ \A c \in ChunksOf(f.id) :
            c.vector.dim = EMBEDDING_DIMENSION /\ c.vector.dim = dbFile.dim

C33_StepOk ==
  (lastOp' # lastOp /\ lastOp'.op = "save" /\ lastOp'.ok) =>
    LET rows == {c \in functionEmbeddings' : c.functionId = lastOp'.arg}
    IN /\ Cardinality(rows) = Len(lastOp'.input.embeddings)
       /\ \A i \in 1..Len(lastOp'.input.embeddings) :
            \E c \in rows : c.chunkIndex = i - 1

C34_StateOk ==
  conn.kind = "open" => dbFile.dim = conn.dim

C34_StepOk ==
  (conn.kind = "none" /\ conn.opens > 0 /\ conn'.opens = conn.opens + 1
     /\ conn'.kind = "open" /\ conn'.dim = conn.dim) =>
    /\ ~conn'.isNewDatabase
    /\ ~conn'.dimensionMismatchRebuild
    /\ functions' = functions /\ functionEmbeddings' = functionEmbeddings

C34_SchemaMatchesProvider == []C34_StateOk /\ [][C34_StepOk]_vars

\* the functions that the iteration of the state's target file extracts
FileFns == extractFunctions(workTree, run.targetFiles[run.idx]).fns

\* the stored function fn has one chunk row per chunk of its code, the row
\* of index i - 1 holding the vector of chunk i
StoredInChunkOrder(rows, chunkRows, fn) ==
  LET chunks == splitByTokens(fn.code, MAX_TOKENS_PER_CHUNK)
  IN \E f \in rows :
       /\ f.name = fn.name /\ f.code = fn.code /\ f.filePath = fn.filePath
       /\ Cardinality({c \in chunkRows : c.functionId = f.id}) = Len(chunks)
       /\ \A i \in 1..Len(chunks) :
            \E c \in chunkRows :
              /\ c.functionId = f.id /\ c.chunkIndex = i - 1
              /\ c.vector.text = chunks[i]

\* C35: a file iteration makes at most one embedding call per extracted
\* function and saves only what it embedded; when it does not fail it makes
\* exactly one embedding call and one save per function, and the chunk row of
\* index i holds the vector of the i-th chunk of the function's code. A
\* function whose code gives no chunk is passed over without a call or save.
C35_StepOk ==
  (pc = "files" /\ pc' = "files" /\ run'.idx = run.idx + 1) =>
    LET calls == obs'.embedCalls - obs.embedCalls
        saves == inserts' - inserts
    IN /\ saves <= calls /\ calls <= Len(FileFns)
       /\ obs'.failed = obs.failed =>
            /\ calls = Len(FileFns) /\ saves = Len(FileFns)
            /\ \A j \in 1..Len(FileFns) :
                 StoredInChunkOrder(functions', functionEmbeddings', FileFns[j])

C35_StateOk ==
  LET blank == [name |-> "w", code |-> <<Tok(TRUE, 2)>>, filePath |-> Abs(P_a)]
      zero == [db |-> Db, saved |-> 0, extractCalls |-> 0, embedCalls |-> 0,
               failed |-> FALSE]
  IN SaveLoop(Db, <<blank>>, 1, NoFaultRec, zero) = zero

C35_OneBatchPerFunction == []C35_StateOk /\ [][C35_StepOk]_vars

C35_Witness ==
  /\ pc = "files" /\ run.idx = 2 /\ obs.failed = {}
  /\ run.targetFiles[1] = Abs(P_a)
  /\ obs.embedCalls = 2 /\ inserts = 2
  /\ \E f \in functions :
       /\ f.name = "g"
       /\ \E c \in functionEmbeddings :
            /\ c.functionId = f.id /\ c.chunkIndex = 1
            /\ c.vector.text = <<Tok(TRUE, 1), Tok(FALSE, 4499)>>

\* C36: the server is connected only with the database initialized and
\* registered, so no tool call finds the database handle missing; the
\* indexing starts only once the server is connected; a failed indexing
\* never ends the process, and the server goes on serving tool calls after it.
C36_DatabaseBeforeServing ==
  /\ srv.connected => (srv.dbInstance /\ conn.kind = "open")
  /\ \A i \in 1..Len(srv.calls) :
       /\ srv.calls[i].result.kind = "returned"
       /\ "error" \in DOMAIN srv.calls[i].result.payload =>
            srv.calls[i].result.payload.error # "Database is not initialized"
  /\ srv.indexing # "none" => srv.connected
  /\ srv.exit = "startup" => srv.indexing = "none"
  /\ srv.indexing = "failed" => srv.exit \in {"none", "signal"}
  /\ (srv.indexing = "failed" /\ srv.exit = "none"
        /\ Len(srv.calls) < MaxToolCalls) => ENABLED ServeToolCall

C36_Witness ==
  /\ srv.indexing = "failed" /\ srv.pc = "serving"
  /\ Len(srv.calls) = 2
  /\ srv.calls[1].indexing = "running"
  /\ srv.calls[2].indexing = "failed"
  /\ "count" \in DOMAIN srv.calls[2].result.payload

\* the step is an initialize call: it adds a caller that came through initialize
InitializeCalled ==
  /\ Len(callers') = Len(callers) + 1
  /\ callers'[Len(callers')].via = "initialize"

C37_StateOk ==
  /\ initializationPromise \in 0..Len(ops)
  /\ \A c \in 1..Len(callers) : callers[c].op \in 1..Len(ops)

C37_StepOk ==
  /\ InitializeCalled =>
       IF initializationPromise # 0
       THEN /\ ops' = ops
            /\ initializationPromise' = initializationPromise
            /\ callers'[Len(callers')].op = initializationPromise
       ELSE /\ Len(ops') = Len(ops) + 1
            /\ initializationPromise' = Len(ops')
            /\ callers'[Len(callers')].op = Len(ops')
  /\ initializationPromise' # initializationPromise =>
       \/ initializationPromise = 0 /\ InitializeCalled
       \/ initializationPromise' = 0 /\ callers' = callers /\ ops' = ops

\* C37: while the module keeps a promise, an initialize call starts no sync and
\* awaits the sync the first call started, whether that sync is running, has
\* returned or has thrown and whatever path the call passes; the promise is
\* dropped only by resetInitialization, and the initialize call after that
\* starts a new sync.
C37_InitializeMemoized == []C37_StateOk /\ [][C37_StepOk]_vars

\* the first call threw at once on a relative path; a second initialize call
\* made after that awaits the same failed sync
C37_Witness ==
  /\ Len(ops) = 1 /\ Len(callers) = 2
  /\ ~IsAbsolute(ops[1].path)
  /\ ops[1].pc = "done" /\ ops[1].result.kind = "thrown"
  /\ \A c \in 1..2 : callers[c].via = "initialize" /\ callers[c].op = 1
  /\ initializationPromise = 1

\* the step is a failed iteration of the loop over targetFiles
FileFailed ==
  /\ pc = "files" /\ run'.idx = run.idx + 1
  /\ run.idx \in obs'.failed

\* the functions that extraction finds in the file, none when it cannot be read
FunctionsOfFile(filePath) ==
  LET ex == extractFunctions(workTree, filePath)
  IN IF ex.ok THEN ex.fns ELSE <<>>

\* rows is one row for each of the first k functions, in that order of ids
PrefixStored(rows, fns, k) ==
  /\ Cardinality(rows) = k
  /\ \A i \in 1..k : \E r \in rows : r.name = fns[i].name /\ r.code = fns[i].code
  /\ \A r, q \in rows : \A i, j \in 1..k :
       (r.name = fns[i].name /\ r.code = fns[i].code /\
        q.name = fns[j].name /\ q.code = fns[j].code /\ i < j) => r.id < q.id

\* the rows of the file after a failure that came once the old rows were gone:
\* as many rows as the iteration inserted and counted, one for each function of
\* a prefix (row ids are reused, so a new row can equal a deleted one)
SavedPrefix(after, delta, added) ==
  LET fns == FunctionsOfFile(run.targetFiles[run.idx])
  IN /\ delta = Cardinality(after) /\ added = delta
     /\ \E k \in 0..Len(fns) : (k = 0 \/ k < Len(fns)) /\ PrefixStored(after, fns, k)

\* C38 as stated: after a failed iteration the old rows of the file are gone,
\* the functions saved before the failure are stored and counted, and they are
\* none or a prefix of the functions of the file.
C38_Original ==
  [][FileFailed =>
       LET filePath == run.targetFiles[run.idx]
       IN SavedPrefix(RowsOf(functions', filePath),
                      run'.savedFunctions - run.savedFunctions,
                      inserts' - inserts)]_vars

\* every way an iteration can fail at the file the run is about to process
C38_StateOk ==
  (pc = "files" /\ run.idx <= Len(run.targetFiles)) =>
    \A fault \in Faults :
      LET filePath == run.targetFiles[run.idx]
          r == IndexFile(Db, workTree, filePath, fault)
          before == RowsOf(functions, filePath)
          after == RowsOf(r.db.functions, filePath)
      IN (FaultApplies(Db, workTree, filePath, fault) /\ r.failed) =>
           IF fault.stage = "clean"
           THEN /\ r.saved = 0 /\ r.db.inserts = inserts
                /\ after \subseteq before
                /\ Cardinality(before \ after) = fault.at
                /\ \A g \in before \ after : \A q \in after : g.id < q.id
           ELSE SavedPrefix(after, r.saved, r.db.inserts - inserts)

C38_StepOk ==
  FileFailed =>
    LET filePath == run.targetFiles[run.idx]
        before == RowsOf(functions, filePath)
        after == RowsOf(functions', filePath)
        delta == run'.savedFunctions - run.savedFunctions
    IN \/ delta = 0 /\ inserts' = inserts /\ after \subseteq before
       \/ SavedPrefix(after, delta, inserts' - inserts)

\* C38 (amended): a failure while the old rows of the file are read or deleted
\* inserts nothing and leaves those old rows that were not yet deleted; a
\* failure after that leaves the deletion in place and the functions saved
\* before it stored and counted in savedFunctions, which are none or a prefix,
\* in extraction order, of the functions of the file.
C38_FailedFileKeepsPrefix == []C38_StateOk /\ [][C38_StepOk]_vars

\* the second run fails at the second function of a.js: the two old rows are
\* gone and the row of the first function is stored and counted
C38_Witness ==
  /\ runs = 1 /\ pc = "files" /\ run.idx = 2
  /\ run.targetFiles[1] = Abs(P_a)
  /\ 1 \in obs.failed
  /\ obs.insertsAtStart = 2 /\ inserts = 3
  /\ run.savedFunctions = 1
  /\ \E r \in functions :
       /\ RowsOf(functions, Abs(P_a)) = {r}
       /\ r.name = FnF.name

\* the function rows stored for other paths than filePath, and their chunks
OtherRows(rows, filePath) == {f \in rows : f.filePath # filePath}
OtherChunks(rows, chunkRows, filePath) ==
  {c \in chunkRows : \E f \in OtherRows(rows, filePath) : f.id = c.functionId}

C39_StepOk ==
  /\ (functions' # functions \/ functionEmbeddings' # functionEmbeddings) =>
       /\ pc = "files" /\ run.idx <= Len(run.targetFiles)
       /\ run' = [run EXCEPT !.idx = @ + 1,
                             !.savedFunctions = run'.savedFunctions]
       /\ LET filePath == run.targetFiles[run.idx]
          IN /\ OtherRows(functions', filePath) = OtherRows(functions, filePath)
             /\ OtherChunks(functions', functionEmbeddings', filePath)
                  = OtherChunks(functions, functionEmbeddings, filePath)
             /\ \A c \in functionEmbeddings' :
                  \E f \in functions' : f.id = c.functionId
  /\ (pc = "files" /\ run.targetFiles = <<>>) =>
       /\ pc' = "idle"
       /\ UNCHANGED <<functions, functionEmbeddings, inserts, indexState>>

\* C39: a step of a run changes function rows and chunk rows only of the
\* target file it is processing; the rows and chunks stored for every other
\* path, also a path whose file is gone from the working copy, stay as they
\* are, and a run whose scope is empty leaves the whole store as it was.
C39_OnlyTargetFilesTouched == [][C39_StepOk]_vars

\* a full rescan after a pull that removed a.js has indexed b.cjs; the rows of
\* a.js are still there
C39_Witness ==
  /\ pc = "files" /\ run.idx = 2
  /\ run.targetFiles = <<Abs(P_b)>>
  /\ workTree[P_a].kind = "missing"
  /\ RowsOf(functions, Abs(P_a)) # {}
  /\ RowsOf(functions, Abs(P_b)) # {}
  /\ run.savedFunctions > 0

\* the step is an initializeDatabase call that returns a rebuilt store
RebuildCall ==
  /\ conn'.opens = conn.opens + 1
  /\ conn'.kind = "open" /\ conn'.dimensionMismatchRebuild

\* the process that rebuilt the store has not ended a run yet
FirstRunAfterRebuild ==
  /\ conn.kind = "open" /\ conn.dimensionMismatchRebuild
  /\ runs = conn.runsAtOpen

FullScanList(tree) == filterJsFiles(listFilesRecursively(DiskFiles(tree), RepoPath))

C40_StateOk ==
  (FirstRunAfterRebuild /\ pc = "idle") =>
    /\ indexState = {} /\ functions = {} /\ functionEmbeddings = {}
    /\ ~getIndexState(indexState, RepoPath).found

C40_StepOk ==
  /\ RebuildCall =>
       indexState' = {} /\ functions' = {} /\ functionEmbeddings' = {}
  /\ (FirstRunAfterRebuild /\ pc = "idle" /\ pc' = "files") =>
       /\ ~run'.state.found
       /\ filterJsFiles([i \in 1..Len(run'.files) |->
                           PathJoin(RepoPath, run'.files[i])]) = <<>>
            => run'.targetFiles = FullScanList(workTree')
  /\ (FirstRunAfterRebuild /\ pc = "files" /\ pc' = "idle"
        /\ run.targetFiles = FullScanList(workTree) /\ obs.failed = {}) =>
       /\ StoredDecls' = WorkingCopyDecls'
       /\ run.savedFunctions > 0 =>
            indexState' = {[repoPath |-> RepoPath,
                            lastIndexedCommit |-> run.head]}

\* C40: an initializeDatabase call that rebuilds the store leaves no index
\* state and no function; the first run of that process finds no prior state,
\* so with no changed source file its scope is the full listing of the working
\* copy, and when no file of it fails the store holds the declarations of the
\* working copy again.
C40_RebuildForcesFullScan == []C40_StateOk /\ [][C40_StepOk]_vars

\* a.js was indexed at commit 1, the store was rebuilt twice (by the 1024
\* build, then by this one), and the first run after that, with nothing
\* pulled, scanned the working copy and stored its functions again
C40_Witness ==
  /\ conn.kind = "open" /\ conn.dimensionMismatchRebuild /\ conn.opens = 3
  /\ runs = 2 /\ conn.runsAtOpen = 1 /\ pc = "idle"
  /\ prev.kind = "summary" /\ prev.savedFunctions > 0
  /\ outcome.kind = "summary" /\ outcome.head = prev.head
  /\ run.files = <<>> /\ ~run.isNewClone /\ ~run.fullRescan
  /\ run.targetFiles # <<>>
  /\ functions # {} /\ indexState # {}

====
